---- MODULE Spec2Model ----
(***************************************************************************)
(* Model of the chunked-upload hook (src/unnamed/part_000, useChunkUpload) *)
(* and of the direct-upload hook (src/src/useFileToChainDirect.js).        *)
(*                                                                         *)
(* Spec      one flow of control calling uploadFileToOSS against a backend *)
(*           whose every response may fail, with local storage and a clock *)
(* SpecKey   getUploadSessionKey and the three session helpers on pairs of *)
(*           (fileName, fileSize, metaId, address) tuples                  *)
(* SpecUtxo  getWalletUTXOs on bounded wallets                             *)
(* SpecFlow  one run of runChunkedUploadFlow or of uploadFileToChainDirect *)
(*           against a wallet and a backend that may refuse every request  *)
(***************************************************************************)
EXTENDS Integers, Sequences, FiniteSets, TLC

VARIABLES
    now,            \* Date.now(), milliseconds
    localStorage,   \* window.localStorage: session key -> item
    uploads,        \* backend: the multipart uploads it has initiated
    call,           \* per invocation of uploadFileToOSS: its locals and position
    log,            \* per invocation: the requests it has sent (history)
    result,         \* per invocation: how its promise settled
    ossProgress,    \* the progress side channel (DOM of updateOSSUploadProgress)
    started,        \* how many times uploadFileToOSS has been called
    keyIn,          \* SpecKey: the two tuples under test
    keyStore,       \* SpecKey: local storage, session key -> owner of the record
    keyOut,         \* SpecKey: what the last helper call returned
    wallet,         \* SpecUtxo: window.metaidwallet.getUtxos()
    requiredAmount, \* SpecUtxo: the argument of getWalletUTXOs
    selection,      \* SpecUtxo: how getWalletUTXOs settled
    flow,           \* SpecFlow: the locals and position of the running upload flow
    wire,           \* SpecFlow: the wallet and backend requests of the run, in order
    settled,        \* SpecFlow: how the promise of the run settled
    taskList,       \* SpecTasks: the accumulated task list
    taskCursor,     \* SpecTasks: the cursor of the next page
    taskHasMore,    \* SpecTasks: whether the last page reported more tasks
    taskCalls,      \* SpecTasks: the calls of loadChunkTasks awaiting their response
    taskLog,        \* SpecTasks: the calls made and the responses handled (history)
    taskStatus,     \* SpecStatus: the status string of the task being rendered
    statusClass,    \* SpecStatus: the class renderTaskList gave its card
    runs,           \* SpecRuns: per run of runChunkedUploadFlow, its locals and position
    chunkedUploadChunkNumber    \* SpecRuns: the hook's variable of that name

vars == <<now, localStorage, uploads, call, log, result, ossProgress, started,
          keyIn, keyStore, keyOut, wallet, requiredAmount, selection,
          flow, wire, settled,
          taskList, taskCursor, taskHasMore, taskCalls, taskLog, taskStatus, statusClass,
          runs, chunkedUploadChunkNumber>>

ossVars  == <<now, localStorage, uploads, call, log, result, ossProgress, started>>
keyVars  == <<keyIn, keyStore, keyOut>>
utxoVars == <<wallet, requiredAmount, selection>>
flowVars == <<flow, wire, settled>>
taskVars == <<taskList, taskCursor, taskHasMore, taskCalls, taskLog>>
statusVars == <<taskStatus, statusClass>>
runVars  == <<runs, chunkedUploadChunkNumber>>

----------------------------------------------------------------------------
(* Bounds *)

MaxCalls == 2       \* calls of uploadFileToOSS in one run

----------------------------------------------------------------------------
(* Constants of the program *)

MULTIPART_CHUNK_SIZE == 1 * 1024 * 1024

maxAge == 7 * 24 * 60 * 60 * 1000

filler == 600

----------------------------------------------------------------------------
(* Generic helpers *)

RECURSIVE SeqSum(_)
SeqSum(s) == IF s = <<>> THEN 0 ELSE Head(s) + SeqSum(Tail(s))

Range(s) == {s[i] : i \in 1..Len(s)}

\* Math.ceil(a / b) for a >= 0, b > 0
MathCeilDiv(a, b) == (a + b - 1) \div b

----------------------------------------------------------------------------
(* The environment of uploadFileToOSS *)

Calls == {"A", "B"}

\* userStore.last of the injected user store
UserLast == [metaid |-> "m1", address |-> "a1"]

\* the File objects the caller may pass: 2.5 MiB (3 parts), exactly 1 MiB
\* (1 part), 1 MiB and a byte (2 parts) and an empty file (no part)
Files == {[name |-> "a.bin", size |-> 2621440],
          [name |-> "b.bin", size |-> 1048576],
          [name |-> "c.bin", size |-> 1048577],
          [name |-> "e.bin", size |-> 0]}

Null == [kind |-> "null"]

NoFile == [name |-> "", size |-> 0]

JSONstringify(v) == [kind |-> "json", value |-> v]

\* JSON.parse: the parsed value, or a thrown SyntaxError
JSONparse(item) ==
    IF item.kind = "json" THEN [threw |-> FALSE, value |-> item.value]
    ELSE [threw |-> TRUE, value |-> Null]

\* mutant: the file size is left out of the key
getUploadSessionKeyWithoutSize(file, metaId, address) ==
    "multipart_upload_" \o file.name \o "_" \o metaId \o "_" \o address

getUploadSessionKey(file, metaId, address) ==
    "multipart_upload_" \o file.name \o "_" \o ToString(file.size)
        \o "_" \o metaId \o "_" \o address

SessionKeys == {getUploadSessionKey(f, UserLast.metaid, UserLast.address) : f \in Files}

\* localStorage.getItem / setItem / removeItem on a storage st
getItem(st, k) == IF k \in DOMAIN st THEN st[k] ELSE Null
setItem(st, k, v) == [x \in DOMAIN st \cup {k} |-> IF x = k THEN v ELSE st[x]]
removeItem(st, k) == [x \in DOMAIN st |-> IF x = k THEN Null ELSE st[x]]

\* mutant: a session of exactly 7 days counts as expired
ExpiredFromSevenDays(session, t) == t - session.timestamp >= maxAge

\* the session data is expired at time t
Expired(session, t) == t - session.timestamp > maxAge

\* getUploadSession: the session it returns (or Null) and the storage it leaves
getUploadSession(st, file, metaId, address, t) ==
    LET sessionKey == getUploadSessionKey(file, metaId, address)
        sessionData == getItem(st, sessionKey)
    IN  IF sessionData = Null THEN [session |-> Null, storage |-> st]
        ELSE LET parsed == JSONparse(sessionData)
             IN  IF parsed.threw
                 THEN [session |-> Null, storage |-> removeItem(st, sessionKey)]
                 ELSE IF Expired(parsed.value, t)
                 THEN [session |-> Null, storage |-> removeItem(st, sessionKey)]
                 ELSE [session |-> parsed.value, storage |-> st]

\* mutant: the session is not written
saveUploadSessionNowhere(st, file, metaId, address, uploadId, key, t) == st

saveUploadSession(st, file, metaId, address, uploadId, key, t) ==
    setItem(st, getUploadSessionKey(file, metaId, address),
            JSONstringify([kind |-> "session", uploadId |-> uploadId, key |-> key,
                           fileName |-> file.name, fileSize |-> file.size,
                           metaId |-> metaId, address |-> address,
                           timestamp |-> t]))

clearUploadSession(st, file, metaId, address) ==
    removeItem(st, getUploadSessionKey(file, metaId, address))

----------------------------------------------------------------------------
(* The backend's multipart store, as far as its responses depend on it *)

UploadIdOf(n) == "u" \o ToString(n)
StorageKeyOf(n) == "k" \o ToString(n)

Etag(uploadId, partNumber) == "etag-" \o uploadId \o "-" \o ToString(partNumber)

Known(ups, uploadId) == \E i \in 1..Len(ups) : ups[i].uploadId = uploadId

UploadIx(ups, uploadId) == CHOOSE i \in 1..Len(ups) : ups[i].uploadId = uploadId

\* the upload is open: initiated and not completed
Open(ups, uploadId) ==
    Known(ups, uploadId) /\ ~ups[UploadIx(ups, uploadId)].completed

Committed(ups, uploadId) ==
    IF Known(ups, uploadId) THEN ups[UploadIx(ups, uploadId)].committed ELSE {}

\* the parts the backend lists, ascending by part number
RECURSIVE ListedFrom(_, _, _)
ListedFrom(uploadId, set, p) ==
    IF set = {} THEN <<>>
    ELSE IF p \in set
         THEN <<[partNumber |-> p, etag |-> Etag(uploadId, p)]>>
              \o ListedFrom(uploadId, set \ {p}, p + 1)
         ELSE ListedFrom(uploadId, set, p + 1)

CommitPart(ups, uploadId, p) ==
    [ups EXCEPT ![UploadIx(ups, uploadId)].committed = @ \cup {p}]

----------------------------------------------------------------------------
(* uploadFileToOSS: its locals, and its synchronous stretches between awaits *)

IdleCall == [pc |-> "idle", file |-> NoFile, existingSession |-> Null,
             uploadId |-> "", key |-> "", existingParts |-> <<>>,
             parts |-> <<>>, partNumber |-> 0, uploadedBytes |-> 0]

\* what the call has done so far: the lookup it made, the requests it sent,
\* the responses it got
EmptyLog == [lookup |-> [item |-> Null, at |-> 0, returned |-> Null],
             hadSession |-> FALSE, committedAtStart |-> {}, listed |-> {},
             initiateReqs |-> <<>>, partReqs |-> <<>>, completeReqs |-> <<>>,
             acked |-> {}, responses |-> {}, itemBefore |-> Null, savedAt |-> {}]

NoResult == [status |-> "none"]

Resolved(v) == [status |-> "resolved", value |-> v]

\* the catch block of uploadFileToOSS wraps every error in the same message
Rejected(cause) ==
    [status |-> "rejected", message |-> "Failed to upload file to OSS: ", cause |-> cause]

\* the progress element: hidden or not, the figures it shows, and (history)
\* the announcements it has shown since it was last made visible
HiddenProgress == [hidden |-> TRUE, last |-> <<0, 0, 0, 0>>, shown |-> <<>>]

showOSSUploadProgress(pr) == [pr EXCEPT !.hidden = FALSE, !.shown = <<>>]

hideOSSUploadProgress(pr) == [pr EXCEPT !.hidden = TRUE]

updateOSSUploadProgress(pr, currentPart, totalParts, uploadedBytes, totalBytes) ==
    IF pr.hidden THEN pr
    ELSE [pr EXCEPT !.last = <<currentPart, totalParts, uploadedBytes, totalBytes>>,
                    !.shown = Append(@, <<currentPart, totalParts, uploadedBytes, totalBytes>>)]

totalPartsOf(file) == MathCeilDiv(file.size, MULTIPART_CHUNK_SIZE)

\* mutant: every part counts as a full chunk
partSizeOfWhole(file, partNumber) == 1 * MULTIPART_CHUNK_SIZE

partSizeOf(file, partNumber) ==
    LET start == (partNumber - 1) * MULTIPART_CHUNK_SIZE
        \* Math.min(start + MULTIPART_CHUNK_SIZE, file.size)
        end == IF start + MULTIPART_CHUNK_SIZE < file.size
               THEN start + MULTIPART_CHUNK_SIZE ELSE file.size
    IN  end - start

\* mutant: the lookup by part number never hits (keys of another type)
existingPartsMapHasNever(existingParts, partNumber) == FALSE

\* existingPartsMap.has / .get: forEach(set) keeps the last entry of a number
existingPartsMapHas(existingParts, partNumber) ==
    \E i \in 1..Len(existingParts) : existingParts[i].partNumber = partNumber

existingPartsMapGet(existingParts, partNumber) ==
    LET ix == {i \in 1..Len(existingParts) : existingParts[i].partNumber = partNumber}
    IN  existingParts[CHOOSE i \in ix : \A j \in ix : j <= i]

\* parts.sort((a, b) => a.partNumber - b.partNumber): stable insertion
RECURSIVE InsertPart(_, _)
InsertPart(sorted, part) ==
    IF sorted = <<>> THEN <<part>>
    ELSE IF part.partNumber < Head(sorted).partNumber THEN <<part>> \o sorted
    ELSE <<Head(sorted)>> \o InsertPart(Tail(sorted), part)

\* mutant: the comparator reversed, b.partNumber - a.partNumber
RECURSIVE InsertPartDescending(_, _)
InsertPartDescending(sorted, part) ==
    IF sorted = <<>> THEN <<part>>
    ELSE IF part.partNumber > Head(sorted).partNumber THEN <<part>> \o sorted
    ELSE <<Head(sorted)>> \o InsertPartDescending(Tail(sorted), part)

RECURSIVE SortPartsDescending(_)
SortPartsDescending(parts) ==
    IF parts = <<>> THEN <<>>
    ELSE InsertPartDescending(SortPartsDescending(SubSeq(parts, 1, Len(parts) - 1)),
                              parts[Len(parts)])

RECURSIVE SortParts(_)
SortParts(parts) ==
    IF parts = <<>> THEN <<>>
    ELSE InsertPart(SortParts(SubSeq(parts, 1, Len(parts) - 1)), parts[Len(parts)])

\* the for loop from cl.partNumber on, up to its next await (the FileReader
\* of a part that must be uploaded) or to its end; st.pr is the progress DOM
RECURSIVE PartLoop(_)
PartLoop(st) ==
    LET cl == st.cl
        totalParts == totalPartsOf(cl.file)
        partNumber == cl.partNumber
        partSize == partSizeOf(cl.file, partNumber)
    IN  IF partNumber > totalParts
        THEN [cl |-> [cl EXCEPT !.pc = "complete", !.parts = SortParts(cl.parts)],
              pr |-> updateOSSUploadProgress(st.pr, totalParts, totalParts,
                                             cl.file.size, cl.file.size)]
        ELSE IF existingPartsMapHas(cl.existingParts, partNumber)
        THEN PartLoop(
              [cl |-> [cl EXCEPT
                        !.parts = Append(@, [partNumber |-> partNumber,
                                             etag |-> existingPartsMapGet(cl.existingParts, partNumber).etag,
                                             size |-> partSize]),
                        !.uploadedBytes = @ + partSize,
                        !.partNumber = partNumber + 1],
               pr |-> updateOSSUploadProgress(st.pr, partNumber, totalParts,
                                              cl.uploadedBytes + partSize, cl.file.size)])
        ELSE [cl |-> [cl EXCEPT !.pc = "read"], pr |-> st.pr]

\* "Step 2": the locals of the loop, the initial announcement, then the loop
EnterPartLoop(cl, pr) ==
    PartLoop([cl |-> [cl EXCEPT !.parts = <<>>, !.uploadedBytes = 0, !.partNumber = 1],
              pr |-> updateOSSUploadProgress(pr, 0, totalPartsOf(cl.file), 0, cl.file.size)])

\* the log after the stretch that ended in cl: a completion request goes out
\* when the loop has ended
LogSend(lg, cl, st) ==
    [lg EXCEPT !.completeReqs = IF cl.pc = "complete"
                                THEN Append(@, [uploadId |-> cl.uploadId, key |-> cl.key,
                                                parts |-> cl.parts])
                                ELSE @,
               !.itemBefore = getItem(st, getUploadSessionKey(cl.file, UserLast.metaid, UserLast.address))]

----------------------------------------------------------------------------
(* uploadFileToOSS: one action per await *)

FailOutcomes == {"throw", "http", "code"}

SessionKeyOf(cl) == getUploadSessionKey(cl.file, UserLast.metaid, UserLast.address)

\* the call sends its initiate request
SendInitiate(cl, lg, st) ==
    [cl |-> [cl EXCEPT !.pc = "initiate"],
     lg |-> [lg EXCEPT !.initiateReqs = Append(@, [fileName |-> cl.file.name, fileSize |-> cl.file.size,
                                                   metaId |-> UserLast.metaid,
                                                   address |-> UserLast.address]),
                       !.itemBefore = getItem(st, SessionKeyOf(cl))]]

\* mutant: the catch block also clears the session
FailClearingSession(c, cause) ==
    /\ call' = [call EXCEPT ![c].pc = "done"]
    /\ result' = [result EXCEPT ![c] = Rejected(cause)]
    /\ ossProgress' = hideOSSUploadProgress(ossProgress)
    /\ localStorage' = clearUploadSession(localStorage, call[c].file,
                                          UserLast.metaid, UserLast.address)

\* the catch block: hide the progress and reject
Fail(c, cause) ==
    /\ call' = [call EXCEPT ![c].pc = "done"]
    /\ result' = [result EXCEPT ![c] = Rejected(cause)]
    /\ ossProgress' = hideOSSUploadProgress(ossProgress)
    /\ UNCHANGED localStorage

\* the call is made: session lookup, then the first request goes out
Start(c, file) ==
    /\ call[c].pc \in {"idle", "done"}
    /\ started < MaxCalls
    /\ started' = started + 1
    /\ LET got == getUploadSession(localStorage, file, UserLast.metaid, UserLast.address, now)
           cl == [IdleCall EXCEPT !.file = file, !.existingSession = got.session]
           lg == [EmptyLog EXCEPT
                    !.lookup = [item |-> getItem(localStorage, SessionKeyOf(cl)),
                                at |-> now, returned |-> got.session]]
       IN  /\ localStorage' = got.storage
           /\ ossProgress' = showOSSUploadProgress(ossProgress)
           /\ result' = [result EXCEPT ![c] = NoResult]
           /\ IF got.session # Null
              THEN /\ call' = [call EXCEPT ![c] =
                                 [cl EXCEPT !.pc = "list",
                                            !.uploadId = got.session.uploadId,
                                            !.key = got.session.key]]
                   /\ log' = [log EXCEPT ![c] =
                                [lg EXCEPT
                                   !.hadSession = TRUE,
                                   !.committedAtStart = Committed(uploads, got.session.uploadId),
                                   !.itemBefore = getItem(got.storage, SessionKeyOf(cl))]]
              ELSE LET sent == SendInitiate(cl, lg, got.storage)
                   IN  /\ call' = [call EXCEPT ![c] = sent.cl]
                       /\ log' = [log EXCEPT ![c] = sent.lg]
    /\ UNCHANGED <<now, uploads>>

\* the list-parts response (or the failure of the request) arrives
ListPartsResponse(c, outcome) ==
    /\ call[c].pc = "list"
    /\ outcome = "ok" => Open(uploads, call[c].uploadId)
    /\ LET existingParts == IF outcome = "ok" THEN ListedFrom(call[c].uploadId, Committed(uploads, call[c].uploadId), 1)
                            ELSE <<>>
           cl == [call[c] EXCEPT
                    !.existingSession = IF outcome = "throw" THEN Null ELSE @,
                    !.existingParts = existingParts]
           lg == [log[c] EXCEPT
                    !.listed = {existingParts[i].partNumber : i \in 1..Len(existingParts)},
                    !.responses = @ \cup {<<"list", outcome>>}]
       IN  IF cl.existingSession = Null \/ Len(cl.existingParts) = 0
           THEN LET sent == SendInitiate(cl, lg, localStorage)
                IN  /\ call' = [call EXCEPT ![c] = sent.cl]
                    /\ log' = [log EXCEPT ![c] = sent.lg]
                    /\ UNCHANGED ossProgress
           ELSE LET st == EnterPartLoop(cl, ossProgress)
                IN  /\ call' = [call EXCEPT ![c] = st.cl]
                    /\ log' = [log EXCEPT ![c] = LogSend(lg, st.cl, localStorage)]
                    /\ ossProgress' = st.pr
    /\ UNCHANGED <<now, localStorage, uploads, result, started>>

\* the initiate response arrives
InitiateResponse(c, outcome) ==
    /\ call[c].pc = "initiate"
    /\ IF outcome = "ok"
       THEN LET n == Len(uploads) + 1
                cl == [call[c] EXCEPT !.uploadId = UploadIdOf(n),
                                      !.key = StorageKeyOf(n),
                                      !.existingParts = <<>>]
                saved == saveUploadSession(localStorage, cl.file, UserLast.metaid,
                                           UserLast.address, cl.uploadId, cl.key, now)
                st == EnterPartLoop(cl, ossProgress)
                lg == [log[c] EXCEPT !.responses = @ \cup {<<"initiate", outcome>>},
                                     !.savedAt = {now}]
            IN  /\ uploads' = Append(uploads, [uploadId |-> UploadIdOf(n),
                                               key |-> StorageKeyOf(n),
                                               committed |-> {},
                                               completed |-> FALSE])
                /\ localStorage' = saved
                /\ call' = [call EXCEPT ![c] = st.cl]
                /\ log' = [log EXCEPT ![c] = LogSend(lg, st.cl, saved)]
                /\ ossProgress' = st.pr
                /\ UNCHANGED result
       ELSE /\ Fail(c, <<"initiate", outcome>>)
            /\ log' = [log EXCEPT ![c].responses = @ \cup {<<"initiate", outcome>>}]
            /\ UNCHANGED uploads
    /\ UNCHANGED <<now, started>>

\* the FileReader of the current part finishes; on success the upload-part
\* request goes out
ReadDone(c, ok) ==
    /\ call[c].pc = "read"
    /\ IF ok
       THEN /\ call' = [call EXCEPT ![c].pc = "part"]
            /\ log' = [log EXCEPT ![c].partReqs = Append(@, [uploadId |-> call[c].uploadId, key |-> call[c].key,
                                                           partNumber |-> call[c].partNumber]),
                                  ![c].itemBefore = getItem(localStorage, SessionKeyOf(call[c]))]
            /\ UNCHANGED <<localStorage, result, ossProgress>>
       ELSE /\ Fail(c, <<"read", "error">>)
            /\ UNCHANGED log
    /\ UNCHANGED <<now, uploads, started>>

\* mutant: a part that failed is left out and the loop goes on
PartResponseGoingOn(c, outcome, commit) ==
    /\ call[c].pc = "part"
    /\ commit => Open(uploads, call[c].uploadId)
    /\ outcome \in {"ok", "nodata"} => commit
    /\ uploads' = IF commit THEN CommitPart(uploads, call[c].uploadId, call[c].partNumber)
                  ELSE uploads
    /\ LET cl == call[c]
           partNumber == cl.partNumber
           partSize == partSizeOf(cl.file, partNumber)
           uploaded == IF outcome = "ok"
                       THEN [cl EXCEPT
                               !.parts = Append(@, [partNumber |-> partNumber,
                                                    etag |-> Etag(cl.uploadId, partNumber),
                                                    size |-> partSize]),
                               !.uploadedBytes = @ + partSize,
                               !.partNumber = partNumber + 1]
                       ELSE [cl EXCEPT !.partNumber = partNumber + 1]
           st == PartLoop([cl |-> uploaded,
                           pr |-> updateOSSUploadProgress(ossProgress, partNumber,
                                      totalPartsOf(cl.file), uploaded.uploadedBytes,
                                      cl.file.size)])
           lg == [log[c] EXCEPT !.responses = @ \cup {<<"part", outcome>>},
                                !.acked = IF outcome = "ok" THEN @ \cup {partNumber} ELSE @]
       IN  /\ call' = [call EXCEPT ![c] = st.cl]
           /\ log' = [log EXCEPT ![c] = LogSend(lg, st.cl, localStorage)]
           /\ ossProgress' = st.pr
           /\ UNCHANGED <<localStorage, result>>
    /\ UNCHANGED <<now, started>>

\* the upload-part response arrives; the backend may have stored the part
\* even when the response is lost or reports a failure
PartResponse(c, outcome, commit) ==
    /\ call[c].pc = "part"
    /\ commit => Open(uploads, call[c].uploadId)
    /\ outcome \in {"ok", "nodata"} => commit
    /\ uploads' = IF commit THEN CommitPart(uploads, call[c].uploadId, call[c].partNumber)
                  ELSE uploads
    /\ IF outcome = "ok"
       THEN LET cl == call[c]
                partNumber == cl.partNumber
                partSize == partSizeOf(cl.file, partNumber)
                uploaded == [cl EXCEPT
                               !.parts = Append(@, [partNumber |-> partNumber,
                                                    etag |-> Etag(cl.uploadId, partNumber),
                                                    size |-> partSize]),
                               !.uploadedBytes = @ + partSize,
                               !.partNumber = partNumber + 1]
                st == PartLoop([cl |-> uploaded,
                                pr |-> updateOSSUploadProgress(ossProgress, partNumber,
                                           totalPartsOf(cl.file), uploaded.uploadedBytes,
                                           cl.file.size)])
                lg == [log[c] EXCEPT !.responses = @ \cup {<<"part", outcome>>},
                                     !.acked = @ \cup {partNumber}]
            IN  /\ call' = [call EXCEPT ![c] = st.cl]
                /\ log' = [log EXCEPT ![c] = LogSend(lg, st.cl, localStorage)]
                /\ ossProgress' = st.pr
                /\ UNCHANGED <<localStorage, result>>
       ELSE /\ Fail(c, <<"part", outcome>>)
            /\ log' = [log EXCEPT ![c].responses = @ \cup {<<"part", outcome>>}]
    /\ UNCHANGED <<now, started>>

\* the completion response arrives; the backend may have completed the upload
\* even when the response is lost or reports a failure
CompleteResponse(c, outcome, commit, dataKey) ==
    /\ call[c].pc = "complete"
    /\ commit => /\ Open(uploads, call[c].uploadId)
                 /\ {call[c].parts[i].partNumber : i \in 1..Len(call[c].parts)}
                        \subseteq Committed(uploads, call[c].uploadId)
    /\ outcome \in {"ok", "nodata"} => commit
    /\ uploads' = IF commit THEN [uploads EXCEPT ![UploadIx(uploads, call[c].uploadId)].completed = TRUE]
                  ELSE uploads
    /\ log' = [log EXCEPT ![c].responses = @ \cup {<<"complete", outcome>>}]
    /\ IF outcome = "ok"
       THEN LET storageKey == dataKey
            IN  /\ localStorage' = clearUploadSession(localStorage, call[c].file,
                                                      UserLast.metaid, UserLast.address)
                /\ ossProgress' = hideOSSUploadProgress(ossProgress)
                /\ call' = [call EXCEPT ![c].pc = "done"]
                /\ result' = [result EXCEPT ![c] = Resolved(storageKey)]
       ELSE Fail(c, <<"complete", outcome>>)
    /\ UNCHANGED <<now, started>>

\* the page is closed or reloaded while the call awaits: nothing of the call
\* runs any more, local storage and the backend stay as they are
Abandon(c) ==
    /\ call[c].pc \in {"list", "initiate", "read", "part", "complete"}
    /\ call' = [call EXCEPT ![c].pc = "done"]
    /\ result' = [result EXCEPT ![c] = [status |-> "abandoned"]]
    /\ ossProgress' = HiddenProgress
    /\ UNCHANGED <<now, localStorage, uploads, log, started>>

\* time passes
Advance(t) ==
    /\ t > now
    /\ now' = t
    /\ UNCHANGED <<localStorage, uploads, call, log, result, ossProgress, started>>

----------------------------------------------------------------------------
(* Spec: one flow of control that uploads a file, calling uploadFileToOSS *)
(* again for the same file after a call has settled or was abandoned      *)

InitKey == keyIn = <<>> /\ keyStore = <<>> /\ keyOut = [op |-> "none"]

InitUtxo == wallet = <<>> /\ requiredAmount = 0 /\ selection = NoResult

InitFlow == flow = [pc |-> "idle", kind |-> ""] /\ wire = <<>> /\ settled = NoResult

\* the task tracker as the module creates it: let taskList = [], taskCursor = 0,
\* taskHasMore = false; no call of loadChunkTasks made
InitTasks ==
    /\ taskList = <<>>
    /\ taskCursor = 0
    /\ taskHasMore = FALSE
    /\ taskCalls = {}
    /\ taskLog = <<>>

\* no task card rendered
InitStatus == taskStatus = Null /\ statusClass = "none"

\* the runs of runChunkedUploadFlow on the hook
Runs == {"r1", "r2"}

\* no run has been called; let chunkedUploadChunkNumber = 0
InitRuns ==
    /\ runs = [r \in Runs |-> [pc |-> "idle", file |-> NoFile, asynchronous |-> FALSE,
                                estimateResult |-> Null, estimatedTotalSeconds |-> 0]]
    /\ chunkedUploadChunkNumber = 0

Init ==
    /\ now = 0
    /\ \E item \in {Null, [kind |-> "corrupt"]} : localStorage = [k \in SessionKeys |-> item]
    /\ uploads = <<>>
    /\ call = [c \in Calls |-> IdleCall]
    /\ log = [c \in Calls |-> EmptyLog]
    /\ result = [c \in Calls |-> NoResult]
    /\ ossProgress = HiddenProgress
    /\ started = 0
    /\ InitKey
    /\ InitUtxo
    /\ InitFlow
    /\ InitTasks
    /\ InitStatus
    /\ InitRuns

Flow == "A"

Next ==
    \/ \E file \in Files :
          /\ started > 0 => file = call[Flow].file
          /\ Start(Flow, file)
          /\ UNCHANGED <<keyVars, utxoVars, flowVars, taskVars, statusVars, runVars>>
    \/ \E outcome \in FailOutcomes \cup {"ok"} :
          ListPartsResponse(Flow, outcome) /\ UNCHANGED <<keyVars, utxoVars, flowVars, taskVars, statusVars, runVars>>
    \/ \E outcome \in FailOutcomes \cup {"nodata", "ok"} :
          InitiateResponse(Flow, outcome) /\ UNCHANGED <<keyVars, utxoVars, flowVars, taskVars, statusVars, runVars>>
    \/ \E ok \in BOOLEAN : ReadDone(Flow, ok) /\ UNCHANGED <<keyVars, utxoVars, flowVars, taskVars, statusVars, runVars>>
    \/ \E outcome \in FailOutcomes \cup {"nodata", "ok"}, commit \in BOOLEAN :
          PartResponse(Flow, outcome, commit) /\ UNCHANGED <<keyVars, utxoVars, flowVars, taskVars, statusVars, runVars>>
    \/ \E outcome \in FailOutcomes \cup {"nodata", "ok"}, commit \in BOOLEAN :
          \E dataKey \in {call[Flow].key, "k0"} :
             /\ outcome # "ok" => dataKey = call[Flow].key
             /\ CompleteResponse(Flow, outcome, commit, dataKey)
             /\ UNCHANGED <<keyVars, utxoVars, flowVars, taskVars, statusVars, runVars>>
    \/ Abandon(Flow) /\ UNCHANGED <<keyVars, utxoVars, flowVars, taskVars, statusVars, runVars>>
    \/ \E t \in {1, maxAge, maxAge + 1} : Advance(t) /\ UNCHANGED <<keyVars, utxoVars, flowVars, taskVars, statusVars, runVars>>

Spec == Init /\ [][Next]_vars

----------------------------------------------------------------------------
(* Claims about uploadFileToOSS, checked under Spec *)

SessionItem(c) == getItem(localStorage, SessionKeyOf(call[c]))

PartNumbers(parts) == {parts[i].partNumber : i \in 1..Len(parts)}

\* the part numbers of a request list are 1..n, ascending, each once
ListsExactly(parts, n) ==
    /\ Len(parts) = n
    /\ \A i \in 1..Len(parts) : parts[i].partNumber = i

ListAnswered(c) == \E o \in FailOutcomes \cup {"ok"} : <<"list", o>> \in log[c].responses

\* what C1 promises of a call that found a session with committed parts:
\* none of these parts is requested again, every other part is requested at
\* most once and under the session's uploadId and key, and a completion
\* request lists parts 1..totalParts after exactly one request per other part
ResumesFrom(c, skipped) ==
    LET lg == log[c]
        session == lg.lookup.returned
        total == totalPartsOf(call[c].file)
    IN  /\ \A i \in 1..Len(lg.partReqs) :
              /\ lg.partReqs[i].partNumber \notin skipped
              /\ lg.partReqs[i].uploadId = session.uploadId
              /\ lg.partReqs[i].key = session.key
              /\ \A j \in 1..Len(lg.partReqs) :
                    lg.partReqs[i].partNumber = lg.partReqs[j].partNumber => i = j
        /\ \A i \in 1..Len(lg.completeReqs) :
              /\ lg.completeReqs[i].uploadId = session.uploadId
              /\ lg.completeReqs[i].key = session.key
              /\ ListsExactly(lg.completeReqs[i].parts, total)
              /\ PartNumbers(lg.partReqs) = (1..total) \ skipped

\* C1 as stated: after an upload was interrupted with parts 1..k (k >= 1)
\* committed under the persisted session, a later call within 7 days requests
\* none of parts 1..k again, requests each of parts k+1..totalParts once under
\* the same uploadId and key, and completes with exactly parts 1..totalParts.
C1_ResumeWhenever ==
    \A c \in Calls :
        (log[c].hadSession /\ log[c].committedAtStart # {})
            => ResumesFrom(c, log[c].committedAtStart)

\* C1 as amended: the same, for a later call whose list-parts request
\* succeeds and reports the committed parts 1..k; these are then exactly the
\* parts the call skips.
C1_ResumeWhenListed ==
    \A c \in Calls :
        (log[c].hadSession /\ log[c].listed # {})
            => /\ log[c].listed = log[c].committedAtStart
               /\ \E k \in 1..totalPartsOf(call[c].file) : log[c].listed = 1..k
               /\ ResumesFrom(c, log[c].listed)

\* a resumed call of the 3-part file that skipped a part, uploaded another
\* and has sent its completion request
C1_Witness ==
    \E c \in Calls :
        /\ log[c].hadSession
        /\ log[c].listed = {1}
        /\ Len(log[c].partReqs) = 2
        /\ Len(log[c].completeReqs) = 1

NetworkSteps == {"initiate", "part", "complete"}

\* C3: when initiate, upload-part or complete fails (no response, non-2xx or
\* non-zero code) the call rejects with the upload-specific error and local
\* storage holds for the file the session record it held when the failing
\* request was sent; a record that was there is still there.
C3_FailureKeepsSession ==
    \A c \in Calls :
        (/\ result[c].status = "rejected"
         /\ result[c].cause[1] \in NetworkSteps
         /\ result[c].cause[2] \in FailOutcomes)
            => /\ result[c].message = "Failed to upload file to OSS: "
               /\ SessionItem(c) = log[c].itemBefore
               /\ result[c].cause[1] \in {"part", "complete"}
                     => /\ SessionItem(c).kind = "json"
                        /\ SessionItem(c).value.uploadId = call[c].uploadId

\* an upload-part request answered with a non-2xx status, session in place
C3_Witness ==
    \E c \in Calls :
        /\ result[c].status = "rejected"
        /\ result[c].cause = <<"part", "http">>
        /\ SessionItem(c).kind = "json"

\* C4: the call resolves only after the completion request was answered OK
\* with code 0; when it resolves the session record is deleted and the value
\* is the storage key of the completed session (the key persisted at
\* initiation and sent with every part).
C4_ResolvesWithSessionKey ==
    \A c \in Calls :
        result[c].status = "resolved"
            => /\ <<"complete", "ok">> \in log[c].responses
               /\ SessionItem(c) = Null
               /\ result[c].value = call[c].key
               /\ \A i \in 1..Len(log[c].partReqs) : log[c].partReqs[i].key = result[c].value

\* the responses of the mocked backend: initiate with data, {code: 0} for
\* every part and for complete
MockedResponses == {<<"initiate", "ok">>, <<"part", "nodata">>, <<"complete", "nodata">>}

\* C5: with no prior session, initiate answered {code:0, data:{uploadId:"u1",
\* key:"k1"}} and every part and complete answered {code:0}, the call returns
\* "k1" and leaves no session record.
C5_MockedBackendReturnsKey ==
    \A c \in Calls :
        (/\ call[c].pc = "done"
         /\ result[c].status # "abandoned"
         /\ log[c].lookup.item = Null
         /\ call[c].uploadId = "u1"
         /\ log[c].responses \subseteq MockedResponses)
            => /\ result[c] = Resolved("k1")
               /\ SessionItem(c) = Null

\* C6: an initiate request is sent iff the lookup returned no session or the
\* list-parts result is empty (a failed listing included), and at most once;
\* after a successful initiate the returned uploadId and key are persisted
\* under the session key, stamped with the time of the save, before any part
\* goes out; every upload-part and completion request carries the uploadId
\* and key of the session persisted when it is sent.
C6_InitiateAndPersist ==
    \A c \in Calls :
        LET lg == log[c]
            item == SessionItem(c)
        IN  /\ Len(lg.initiateReqs) <= 1
            /\ call[c].pc # "idle" =>
                  (Len(lg.initiateReqs) = 1
                      <=> (~lg.hadSession \/ (ListAnswered(c) /\ lg.listed = {})))
            /\ call[c].pc \in {"read", "part", "complete"} =>
                  /\ item.kind = "json"
                  /\ item.value.uploadId = call[c].uploadId
                  /\ item.value.key = call[c].key
                  /\ <<"initiate", "ok">> \in lg.responses =>
                        /\ lg.savedAt = {item.value.timestamp}
                        /\ item.value.timestamp <= now
                  /\ \A i \in 1..Len(lg.partReqs) :
                        /\ lg.partReqs[i].uploadId = item.value.uploadId
                        /\ lg.partReqs[i].key = item.value.key
                  /\ \A i \in 1..Len(lg.completeReqs) :
                        /\ lg.completeReqs[i].uploadId = item.value.uploadId
                        /\ lg.completeReqs[i].key = item.value.key
            /\ (lg.partReqs # <<>> \/ lg.completeReqs # <<>>) =>
                  (Len(lg.initiateReqs) = 1 => <<"initiate", "ok">> \in lg.responses)

\* a call that found a session, got an empty listing, initiated anew and is
\* now uploading a part under the new session
C6_Witness ==
    \E c \in Calls :
        /\ log[c].hadSession
        /\ <<"list", "ok">> \in log[c].responses
        /\ Len(log[c].initiateReqs) = 1
        /\ call[c].pc = "part"
        /\ call[c].uploadId = "u2"

\* C7: getUploadSession never returns a session whose timestamp is more than
\* 7 days (604,800,000 ms) before the time of the lookup; such a record, and
\* an item that does not parse, is removed by the lookup; a record of 7 days
\* or less is returned and stays in place.
C7_LookupExpiry ==
    \A c \in Calls :
        LET lk == log[c].lookup
            fresh == call[c].pc \in {"list", "initiate"} /\ log[c].responses = {}
        IN  call[c].pc # "idle" =>
              /\ lk.returned # Null => lk.at - lk.returned.timestamp <= 604800000
              /\ (lk.item.kind = "json" /\ lk.at - lk.item.value.timestamp > 604800000) =>
                    /\ lk.returned = Null
                    /\ fresh => SessionItem(c) = Null
              /\ lk.item.kind = "corrupt" =>
                    /\ lk.returned = Null
                    /\ fresh => SessionItem(c) = Null
              /\ (lk.item.kind = "json" /\ lk.at - lk.item.value.timestamp <= 604800000) =>
                    /\ lk.returned = lk.item.value
                    /\ fresh => SessionItem(c) = lk.item

\* a lookup that found a record one millisecond over 7 days old
C7_Witness ==
    \E c \in Calls :
        /\ call[c].pc = "initiate"
        /\ log[c].lookup.item.kind = "json"
        /\ log[c].lookup.at - log[c].lookup.item.value.timestamp = 604800001
        /\ log[c].lookup.returned = Null
        /\ SessionItem(c) = Null

\* a lookup that found a record exactly 7 days old and returned it
C7_WitnessBoundary ==
    \E c \in Calls :
        /\ call[c].pc = "list"
        /\ log[c].lookup.at - log[c].lookup.returned.timestamp = 604800000

----------------------------------------------------------------------------
(* SpecKey: the session helpers on two different tuples *)

\* a string of the tuple, spelled as its characters
RECURSIVE Text(_)
Text(chars) == IF chars = <<>> THEN "" ELSE Head(chars) \o Text(Tail(chars))

HasUnderscore(chars) == "_" \in Range(chars)

FileOf(t) == [name |-> Text(t.name), size |-> t.size]

KeyOf(t) == getUploadSessionKey(FileOf(t), Text(t.metaId), Text(t.address))

Other(i) == 3 - i

\* tuple i saves its session
KeySave(i) ==
    LET t == keyIn[i]
        st == saveUploadSession(keyStore, FileOf(t), Text(t.metaId), Text(t.address),
                                UploadIdOf(i), StorageKeyOf(i), now)
    IN  /\ keyStore' = st
        /\ keyOut' = [op |-> "save", by |-> i, returned |-> Null,
                      otherBefore |-> getItem(keyStore, KeyOf(keyIn[Other(i)])),
                      otherAfter |-> getItem(st, KeyOf(keyIn[Other(i)]))]
        /\ UNCHANGED keyIn

\* tuple i looks its session up
KeyGet(i) ==
    LET t == keyIn[i]
        got == getUploadSession(keyStore, FileOf(t), Text(t.metaId), Text(t.address), now)
    IN  /\ keyStore' = got.storage
        /\ keyOut' = [op |-> "get", by |-> i, returned |-> got.session,
                      otherBefore |-> getItem(keyStore, KeyOf(keyIn[Other(i)])),
                      otherAfter |-> getItem(got.storage, KeyOf(keyIn[Other(i)]))]
        /\ UNCHANGED keyIn

\* tuple i clears its session
KeyClear(i) ==
    LET t == keyIn[i]
        st == clearUploadSession(keyStore, FileOf(t), Text(t.metaId), Text(t.address))
    IN  /\ keyStore' = st
        /\ keyOut' = [op |-> "clear", by |-> i, returned |-> Null,
                      otherBefore |-> getItem(keyStore, KeyOf(keyIn[Other(i)])),
                      otherAfter |-> getItem(st, KeyOf(keyIn[Other(i)]))]
        /\ UNCHANGED keyIn

InitOss ==
    /\ now = 0
    /\ localStorage = [k \in SessionKeys |-> Null]
    /\ uploads = <<>>
    /\ call = [c \in Calls |-> IdleCall]
    /\ log = [c \in Calls |-> EmptyLog]
    /\ result = [c \in Calls |-> NoResult]
    /\ ossProgress = HiddenProgress
    /\ started = 0

KeyInit ==
    /\ LET Tuples == [name : {<<"a">>, <<"a", "_", "1">>, <<"a", "_", "1", "_", "1">>, <<"b">>},
                      size : {1, 11},
                      metaId : {<<"1">>, <<"1", "1">>, <<"m">>, <<"1", "_", "1">>},
                      address : {<<"1">>, <<"x">>, <<"1", "_", "1">>}]
       IN  keyIn \in {p \in Tuples \X Tuples : p[1] # p[2]}
    /\ keyStore = [k \in {KeyOf(keyIn[1]), KeyOf(keyIn[2])} |-> Null]
    /\ keyOut = [op |-> "none", by |-> 0, returned |-> Null, otherBefore |-> Null, otherAfter |-> Null]
    /\ InitOss
    /\ InitUtxo
    /\ InitFlow
    /\ InitTasks
    /\ InitStatus
    /\ InitRuns

KeyNext ==
    \/ \E i \in {1, 2} : KeySave(i) /\ UNCHANGED <<ossVars, utxoVars, flowVars, taskVars, statusVars, runVars>>
    \/ \E i \in {1, 2} : KeyGet(i) /\ UNCHANGED <<ossVars, utxoVars, flowVars, taskVars, statusVars, runVars>>
    \/ \E i \in {1, 2} : KeyClear(i) /\ UNCHANGED <<ossVars, utxoVars, flowVars, taskVars, statusVars, runVars>>

SpecKey == KeyInit /\ [][KeyNext]_vars

\* the session helpers keep the two tuples apart: their keys differ, a lookup
\* returns only a session saved for its own tuple, and no helper call changes
\* the record of the other tuple
KeptApart ==
    /\ KeyOf(keyIn[1]) # KeyOf(keyIn[2])
    /\ keyOut.otherAfter = keyOut.otherBefore
    /\ (keyOut.op = "get" /\ keyOut.returned # Null) =>
          LET t == keyIn[keyOut.by]
          IN  /\ keyOut.returned.fileName = Text(t.name)
              /\ keyOut.returned.fileSize = t.size
              /\ keyOut.returned.metaId = Text(t.metaId)
              /\ keyOut.returned.address = Text(t.address)
              /\ keyOut.returned.uploadId = UploadIdOf(keyOut.by)

\* C8 as stated: two different (fileName, fileSize, metaId, address) tuples
\* never map to the same session key, so no session is returned, overwritten
\* or removed on behalf of a different tuple.
C8_TuplesKeptApart == (keyIn # <<>> /\ keyOut.op # "none") => KeptApart

PlainIds(t) == ~HasUnderscore(t.metaId) /\ ~HasUnderscore(t.address)

\* C8 as amended: the same for tuples whose metaId and address contain no
\* underscore, whatever the file names and sizes are.
C8_PlainIdsKeptApart ==
    (keyIn # <<>> /\ PlainIds(keyIn[1]) /\ PlainIds(keyIn[2])) => KeptApart

\* both sessions are stored, the file name of one spells the other's name
\* and size, and a lookup has returned a session
C8_Witness ==
    /\ keyIn # <<>>
    /\ PlainIds(keyIn[1]) /\ PlainIds(keyIn[2])
    /\ keyIn[1].name = <<"a", "_", "1">>
    /\ keyIn[2].name = <<"a">> /\ keyIn[2].size = 1
    /\ keyOut.op = "get" /\ keyOut.returned # Null
    /\ getItem(keyStore, KeyOf(keyIn[1])).kind = "json"
    /\ getItem(keyStore, KeyOf(keyIn[2])).kind = "json"

----------------------------------------------------------------------------
(* SpecUtxo: getWalletUTXOs *)

MaxUtxos == 3       \* UTXOs the wallet holds

\* mvc.Script.buildPublicKeyHashOut(address).toHex()
ScriptHex(address) == "76a914" \o address \o "88ac"

\* the wallet's answer to getUtxos for the values vs, in its order
WalletOf(vs) ==
    [i \in 1..Len(vs) |-> [txid |-> "t" \o ToString(i), outIndex |-> 0,
                           value |-> vs[i], address |-> "a1"]]

\* mutant: the filter keeps a UTXO of exactly filler satoshis
RECURSIVE FilterUtxosFromFiller(_)
FilterUtxosFromFiller(utxos) ==
    IF utxos = <<>> THEN <<>>
    ELSE IF Head(utxos).value >= filler
         THEN <<Head(utxos)>> \o FilterUtxosFromFiller(Tail(utxos))
         ELSE FilterUtxosFromFiller(Tail(utxos))

\* utxos.filter(utxo => utxo.value > filler)
RECURSIVE FilterUtxos(_)
FilterUtxos(utxos) ==
    IF utxos = <<>> THEN <<>>
    ELSE IF Head(utxos).value > filler
         THEN <<Head(utxos)>> \o FilterUtxos(Tail(utxos))
         ELSE FilterUtxos(Tail(utxos))

\* sort((a, b) => b.value - a.value): stable, descending by value
RECURSIVE InsertUtxo(_, _)
InsertUtxo(sorted, utxo) ==
    IF sorted = <<>> THEN <<utxo>>
    ELSE IF utxo.value > Head(sorted).value THEN <<utxo>> \o sorted
    ELSE <<Head(sorted)>> \o InsertUtxo(Tail(sorted), utxo)

\* mutant: the filtered list is left in the wallet's order
SortUtxosNot(utxos) == utxos

RECURSIVE SortUtxos(_)
SortUtxos(utxos) ==
    IF utxos = <<>> THEN <<>>
    ELSE InsertUtxo(SortUtxos(SubSeq(utxos, 1, Len(utxos) - 1)), utxos[Len(utxos)])

\* mutant: the loop stops after the first UTXO whatever the total is
EnoughAtOnce(totalAmount, required) == TRUE

\* the loop's exit test after adding a UTXO
Enough(totalAmount, required) == totalAmount >= required + 1

\* the for loop over sortedUtxos from the selection sel on
RECURSIVE SelectUtxos(_, _, _)
SelectUtxos(sortedUtxos, required, sel) ==
    IF sortedUtxos = <<>> THEN sel
    ELSE LET utxo == Head(sortedUtxos)
             next == [utxos |-> Append(sel.utxos,
                                       [txId |-> utxo.txid, outputIndex |-> utxo.outIndex,
                                        script |-> ScriptHex(utxo.address),
                                        satoshis |-> utxo.value]),
                      totalAmount |-> sel.totalAmount + utxo.value]
         IN  IF Enough(next.totalAmount, required) THEN next
             ELSE SelectUtxos(Tail(sortedUtxos), required, next)

\* mutant: the test after the loop without the 1-satoshi margin
InsufficientWithoutMargin(totalAmount, required) == totalAmount < required

\* the test after the loop
Insufficient(totalAmount, required) == totalAmount < required + 1

UtxoRejected(cause) ==
    [status |-> "rejected", message |-> "Failed to get UTXOs: ", cause |-> cause]

\* getWalletUTXOs on the wallet's answer utxos
getWalletUTXOs(utxos, required) ==
    IF Len(utxos) = 0 THEN UtxoRejected("No available UTXOs in wallet")
    ELSE LET fillerUtxos == FilterUtxos(utxos)
         IN  IF Len(fillerUtxos) = 0
             THEN UtxoRejected("No UTXOs larger than 600 satoshis available in wallet")
             ELSE LET sortedUtxos == SortUtxos(fillerUtxos)
                      sel == SelectUtxos(sortedUtxos, required,
                                         [utxos |-> <<>>, totalAmount |-> 0])
                  IN  IF Insufficient(sel.totalAmount, required)
                      THEN UtxoRejected("Insufficient balance!")
                      ELSE Resolved(sel)

\* the call: the wallet answers getUtxos, or refuses
GetWalletUTXOs(answers) ==
    /\ selection = NoResult
    /\ selection' = IF answers THEN getWalletUTXOs(wallet, requiredAmount)
                    ELSE UtxoRejected("wallet")
    /\ UNCHANGED <<wallet, requiredAmount>>

\* the caller asks again, for another amount
AskAgain(required) ==
    /\ selection # NoResult
    /\ requiredAmount' = required
    /\ selection' = NoResult
    /\ UNCHANGED wallet

UtxoInit ==
    /\ wallet \in {WalletOf(vs) : vs \in UNION {[1..n -> {1, 600, 601, 1000}] : n \in 0..MaxUtxos}}
    /\ requiredAmount \in {0, 600, 1000, 1600, 1601, 2601}
    /\ selection = NoResult
    /\ InitOss
    /\ InitKey
    /\ InitFlow
    /\ InitTasks
    /\ InitStatus
    /\ InitRuns

UtxoNext ==
    \/ \E answers \in BOOLEAN : GetWalletUTXOs(answers) /\ UNCHANGED <<ossVars, keyVars, flowVars, taskVars, statusVars, runVars>>
    \/ \E required \in {0, 600, 1000, 1600, 1601, 2601} : AskAgain(required) /\ UNCHANGED <<ossVars, keyVars, flowVars, taskVars, statusVars, runVars>>

SpecUtxo == UtxoInit /\ [][UtxoNext]_vars

Satoshis(utxos) == [i \in 1..Len(utxos) |-> utxos[i].satoshis]

\* C9: a returned selection's totalAmount is the sum of the satoshis of its
\* UTXOs and is at least requiredAmount + 1.
C9_TotalCoversRequired ==
    selection.status = "resolved"
        => /\ selection.value.totalAmount = SeqSum(Satoshis(selection.value.utxos))
           /\ selection.value.totalAmount >= requiredAmount + 1

\* a selection of two UTXOs whose total is exactly requiredAmount + 1
C9_Witness ==
    /\ selection.status = "resolved"
    /\ Len(selection.value.utxos) = 2
    /\ selection.value.totalAmount = requiredAmount + 1

\* the selected UTXOs above the dust threshold
AboveDust(utxos) == SelectSeq(utxos, LAMBDA u : u.satoshis > 600)

\* C10: no UTXO of 600 satoshis or less is in a returned selection, every
\* selected UTXO is one of the wallet's, and the UTXOs above 600 alone reach
\* requiredAmount + 1.
C10_NoDustSelected ==
    selection.status = "resolved"
        => /\ \A i \in 1..Len(selection.value.utxos) :
                 /\ selection.value.utxos[i].satoshis > 600
                 /\ \E j \in 1..Len(wallet) :
                       /\ wallet[j].txid = selection.value.utxos[i].txId
                       /\ wallet[j].value = selection.value.utxos[i].satoshis
           /\ SeqSum(Satoshis(AboveDust(selection.value.utxos))) >= requiredAmount + 1

\* a selection from a wallet that also holds a UTXO of exactly 600 satoshis
\* and that needs both of its larger UTXOs
C10_Witness ==
    /\ selection.status = "resolved"
    /\ \E j \in 1..Len(wallet) : wallet[j].value = 600
    /\ Len(selection.value.utxos) = 2
    /\ requiredAmount = 1600

\* the wallet answered getUtxos in the call that settled
WalletAnswered == selection.status # "none" /\ ~(selection.status = "rejected" /\ selection.cause = "wallet")

\* the wallet's UTXOs above 600 satoshis, as positions in the wallet's answer
Eligible == {j \in 1..Len(wallet) : wallet[j].value > 600}

RECURSIVE SumOver(_)
SumOver(js) == IF js = {} THEN 0
               ELSE LET j == CHOOSE x \in js : TRUE IN wallet[j].value + SumOver(js \ {j})

\* C11: on the UTXOs the wallet returned, getWalletUTXOs rejects if and only
\* if the values of all UTXOs above 600 satoshis sum to less than
\* requiredAmount + 1.
C11_FailsIffInfeasible ==
    WalletAnswered => (selection.status = "rejected" <=> SumOver(Eligible) < requiredAmount + 1)

\* a rejection for a wallet whose two eligible UTXOs sum to exactly
\* requiredAmount, one satoshi short
C11_Witness ==
    /\ selection.status = "rejected" /\ selection.cause = "Insufficient balance!"
    /\ Cardinality(Eligible) = 2
    /\ SumOver(Eligible) = requiredAmount

\* the positions in the wallet of the UTXOs of a selection
SelectedFrom(sel) == {j \in 1..Len(wallet) : \E i \in 1..Len(sel.utxos) : sel.utxos[i].txId = wallet[j].txid}

\* C12: a returned selection is the shortest prefix of the eligible UTXOs in
\* descending value order that reaches requiredAmount + 1: it is in
\* non-increasing order, no unselected eligible UTXO is larger than a selected
\* one, each UTXO is selected once, and without its last UTXO the total is
\* below requiredAmount + 1.
C12_ShortestDescendingPrefix ==
    selection.status = "resolved" =>
        LET sel == selection.value
            n == Len(sel.utxos)
        IN  /\ n >= 1
            /\ \A i \in 1..(n - 1) : sel.utxos[i].satoshis >= sel.utxos[i + 1].satoshis
            /\ SelectedFrom(sel) \subseteq Eligible
            /\ Cardinality(SelectedFrom(sel)) = n
            /\ \A j \in Eligible \ SelectedFrom(sel) :
                  \A i \in 1..n : wallet[j].value <= sel.utxos[i].satoshis
            /\ sel.totalAmount - sel.utxos[n].satoshis < requiredAmount + 1

\* a selection of two UTXOs from a wallet that lists a smaller eligible UTXO
\* first and leaves it unselected
C12_Witness ==
    /\ selection.status = "resolved"
    /\ Len(selection.value.utxos) = 2
    /\ Len(wallet) = 3 /\ wallet[1].value = 601
    /\ Eligible \ SelectedFrom(selection.value) = {1}

----------------------------------------------------------------------------
(* SpecFlow: runChunkedUploadFlow and uploadFileToChainDirect *)

MaxOutputs == 2     \* outputs of the transaction the wallet returns from pay

\* mutant: five times the tolerance
amountToleranceWide == 5 * 1000

amountTolerance == 1000

preTxBaseSize == 200

preTxInputSize == 150

mergeTxBaseSize == 200

mergeTxInputSize == 150

mergeTxOutputSize == 34

\* mutant: the merge fee assumes one input
estimatedMergeTxInputsOne == 2 - 1

estimatedMergeTxInputs == 2

\* 0x2 | 0x40, SIGHASH_NONE | SIGHASH_ANYONECANPAY: the sigtype asked of the
\* wallet and the one put in the unlocking script, in each pre-transaction
ChunkRequestSigtype == 2 + 64
ChunkScriptSigtype == 2 + 64
IndexRequestSigtype == 2 + 64
\* mutant: the index pre-transaction's script says ALL | FORKID
IndexScriptSigtypeAll == 1 + 64
IndexScriptSigtype == 2 + 64

\* 0x3 | 0x80 | 0x40, asked and embedded by buildAndSignBaseTx
BaseRequestSigtype == 3 + 128 + 64
BaseScriptSigtype == 3 + 128 + 64

\* the sigtype of the signatures the wallet's pay method makes (ALL | FORKID)
PaySigtype == 1 + 64

Undefined == [kind |-> "undefined"]

\* chainStore.mvcFeeRate() || 1
feeRateOf(mvcFeeRate) == IF mvcFeeRate = 0 THEN 1 ELSE mvcFeeRate

\* Math.abs
MathAbs(x) == IF x < 0 THEN 0 - x ELSE x

\* new Error(message) as thrown by the catch block of a component: the
\* component's prefix followed by the message of the error it caught
Err(prefix, cause) == [prefix |-> prefix, cause |-> cause]

\* error.message && error.message.includes('user cancelled')
includesUserCancelled(error) == error.cause = "user cancelled"

\* a rejected promise of one of the two flows
Thrown(error) == [status |-> "rejected", error |-> error]

----------------------------------------------------------------------------
(* Transactions of the mvc library, as far as the hooks build and read them *)

\* an input added by tx.from(utxo): the outpoint, the output it spends as
\* the caller declared it, and no unlocking script yet
TxInput(utxo) == [txId |-> utxo.txId, outputIndex |-> utxo.outputIndex,
                  script |-> utxo.script, satoshis |-> utxo.satoshis,
                  unlock |-> Null]

\* an output added by tx.to(address, satoshis)
TxOutput(address, satoshis) == [address |-> address, satoshis |-> satoshis]

\* for (const utxo of utxoData.utxos) tx.from({...})
FromAll(utxos) == [i \in 1..Len(utxos) |-> TxInput(utxos[i])]

\* new mvc.Transaction() with version 10, the inputs and the outputs
Transaction(inputs, outputs) == [version |-> 10, inputs |-> inputs, outputs |-> outputs]

\* mvc.Script.buildPublicKeyHashIn(publicKey, sig, sigtype) set on an input;
\* signedWith is the sigtype the wallet signed with
UnlockingScript(signedWith, sigtype) ==
    [kind |-> "p2pkh-in", signedWith |-> signedWith, sigtype |-> sigtype]

setScript(tx, i, unlockingScript) == [tx EXCEPT !.inputs[i].unlock = unlockingScript]

\* tx.toString() / getRawHex(): the serialization carries, per input, the
\* outpoint and the unlocking script but not the output it spends
RawHex(tx) ==
    [version |-> tx.version,
     inputs |-> [i \in 1..Len(tx.inputs) |->
                    [txId |-> tx.inputs[i].txId, outputIndex |-> tx.inputs[i].outputIndex,
                     unlock |-> tx.inputs[i].unlock]],
     outputs |-> tx.outputs]

\* getTxId(): the hash of the serialization
TxIdOf(tx) == "id:" \o ToString(RawHex(tx))

\* txComposer.serialize(); the composer keeps the declared outputs of the inputs
Serialize(tx) == [kind |-> "composer", tx |-> tx]

\* output.script.toAddress(network).toString(): the empty address stands for
\* a script that pays no address, for which toAddress gives nothing
HasAddress(output) == output.address # ""

\* output.script.toHex()
OutputScript(output) == IF HasAddress(output) THEN ScriptHex(output.address) ELSE "6a"

----------------------------------------------------------------------------
(* The environment of the two flows *)

\* the file of the run: 441 bytes
FlowFile == [name |-> "a.bin", size |-> 441]

\* the outputs the wallet may put in the transaction it returns from pay: the
\* requested ones, change of the user and outputs that pay somebody else or
\* no address
PaidOutputs(requested) ==
    Range(requested)
        \cup {TxOutput(UserLast.address, 50000),
              TxOutput("b2", requested[1].satoshis),
              TxOutput("", 0)}

\* the inputs of the paid transaction: those of the request and the ones the
\* wallet added, all signed by the wallet
PaidInputs(inputs, added) ==
    LET all == inputs \o (IF added THEN <<TxInput([txId |-> "w1", outputIndex |-> 0,
                                                   script |-> ScriptHex(UserLast.address),
                                                   satoshis |-> 60000])>>
                          ELSE <<>>)
    IN  [i \in 1..Len(all) |-> [all[i] EXCEPT !.unlock = UnlockingScript(PaySigtype, PaySigtype)]]

\* the transaction the wallet returns for the request tx when it adds an
\* input or not and puts the outputs outs
PaidTx(tx, added, outs) == Transaction(PaidInputs(tx.inputs, added), outs)

\* the transaction of the pending pay request, as TxComposer.deserialize
\* gives it back
PayRequestTx == wire[Len(wire)].req.txComposer.tx

----------------------------------------------------------------------------
(* The locals of a run and its requests *)

NewFlow == [pc |-> "idle", kind |-> "", file |-> NoFile, asynchronous |-> FALSE,
            mvcFeeRate |-> 0, storageKey |-> "", estimateResult |-> Undefined,
            chunkPreTxOutputAmount |-> 0, indexPreTxOutputAmount |-> 0,
            mergeTxFee |-> 0, totalRequiredAmount |-> 0, estimatedFee |-> 0,
            allUtxos |-> Undefined, mergeResult |-> Undefined, tx |-> Undefined,
            chunkPreTxHex |-> Undefined, indexPreTxHex |-> Undefined,
            finalUtxo |-> Undefined, mergeTxHex |-> "", toast |-> "none",
            estimatedTotalSeconds |-> 0, currentProgress |-> Undefined,
            elapsedSeconds |-> 0, progressInterval |-> FALSE, isApiReturned |-> FALSE]

\* a request goes out, its answer pending
Send(w, op, req) == Append(w, [op |-> op, req |-> req, res |-> "pending"])

\* the pending request is answered
Answer(w, res) == [w EXCEPT ![Len(w)].res = res]

\* mutant: the catch block shows the toast and the step is tried again
CaughtTryingAgain(fl, error) ==
    /\ flow' = [fl EXCEPT !.toast = "error"]
    /\ settled' = settled

\* the catch block of runChunkedUploadFlow: a toast, and the function returns
Caught(fl, error) ==
    /\ flow' = [fl EXCEPT !.pc = "done",
                          !.toast = IF includesUserCancelled(error) THEN "warning" ELSE "error"]
    /\ settled' = Resolved(Undefined)

----------------------------------------------------------------------------
(* runChunkedUploadFlow *)

\* mutant: the second test is an if of its own, not an else-if
RECURSIVE MatchOutputsTwoIfs(_, _, _, _, _, _)
MatchOutputsTwoIfs(outputs, i, address, chunkAmount, indexAmount, acc) ==
    IF i >= Len(outputs) THEN acc
    ELSE LET output == outputs[i + 1]
             own == HasAddress(output) /\ output.address = address
             first ==
                IF /\ own
                   /\ acc.chunkPreTxOutputIndex = -1
                   /\ MathAbs(output.satoshis - chunkAmount) <= amountTolerance
                THEN [acc EXCEPT !.chunkPreTxOutputIndex = i,
                                 !.chunkPreTxScript = OutputScript(output)]
                ELSE acc
             next ==
                IF /\ own
                   /\ first.indexPreTxOutputIndex = -1
                   /\ MathAbs(output.satoshis - indexAmount) <= amountTolerance
                THEN [first EXCEPT !.indexPreTxOutputIndex = i,
                                   !.indexPreTxScript = OutputScript(output)]
                ELSE first
         IN  MatchOutputsTwoIfs(outputs, i + 1, address, chunkAmount, indexAmount, next)

\* the single pass over parsedMergeTx.outputs from output i (0-based) on
RECURSIVE MatchOutputs(_, _, _, _, _, _)
MatchOutputs(outputs, i, address, chunkAmount, indexAmount, acc) ==
    IF i >= Len(outputs) THEN acc
    ELSE LET output == outputs[i + 1]
             next ==
                IF HasAddress(output) /\ output.address = address
                THEN IF /\ acc.chunkPreTxOutputIndex = -1
                        /\ MathAbs(output.satoshis - chunkAmount) <= amountTolerance
                     THEN [acc EXCEPT !.chunkPreTxOutputIndex = i,
                                      !.chunkPreTxScript = OutputScript(output)]
                     ELSE IF /\ acc.indexPreTxOutputIndex = -1
                             /\ MathAbs(output.satoshis - indexAmount) <= amountTolerance
                          THEN [acc EXCEPT !.indexPreTxOutputIndex = i,
                                           !.indexPreTxScript = OutputScript(output)]
                          ELSE acc
                ELSE acc
         IN  MatchOutputs(outputs, i + 1, address, chunkAmount, indexAmount, next)

\* mutant: the two funding amounts in one output
MergeTxOneOutput(utxoData, address, chunkAmount, indexAmount) ==
    Transaction(FromAll(utxoData.utxos), <<TxOutput(address, chunkAmount + indexAmount)>>)

\* the transaction buildChunkedUploadMergeTx hands to pay
MergeTx(utxoData, address, chunkAmount, indexAmount) ==
    Transaction(FromAll(utxoData.utxos),
                <<TxOutput(address, chunkAmount), TxOutput(address, indexAmount)>>)

\* what buildChunkedUploadMergeTx returns for the paid transaction
MergeResult(paid, address, chunkAmount, indexAmount) ==
    LET found == MatchOutputs(RawHex(paid).outputs, 0, address, chunkAmount, indexAmount,
                              [chunkPreTxOutputIndex |-> -1, indexPreTxOutputIndex |-> -1,
                               chunkPreTxScript |-> "null", indexPreTxScript |-> "null"])
    IN  [mergeTxId |-> TxIdOf(paid), mergeTxHex |-> RawHex(paid),
         chunkPreTxOutputIndex |-> found.chunkPreTxOutputIndex,
         indexPreTxOutputIndex |-> found.indexPreTxOutputIndex,
         chunkPreTxScript |-> found.chunkPreTxScript,
         indexPreTxScript |-> found.indexPreTxScript]

\* chunkPreTxUtxo and indexPreTxUtxo of runChunkedUploadFlow
PreTxUtxo(mergeTxId, outputIndex, script, amount) ==
    [utxos |-> <<[txId |-> mergeTxId, outputIndex |-> outputIndex,
                  script |-> script, satoshis |-> amount]>>,
     totalAmount |-> amount]

\* the transaction of buildChunkFundingPreTx and of buildIndexPreTx before it
\* is signed: the inputs and no output
PreTx(utxoData) == Transaction(FromAll(utxoData.utxos), <<>>)

\* the argument of window.metaidwallet.signTransaction for input i (0-based)
SignRequest(tx, utxoData, i, sigtype) ==
    [txHex |-> RawHex(tx), address |-> UserLast.address, inputIndex |-> i,
     scriptHex |-> utxoData.utxos[i + 1].script,
     satoshis |-> utxoData.utxos[i + 1].satoshis, sigtype |-> sigtype]

\* the body of chunked-upload-task and of chunked-upload
SubmitBody(fl, indexPreTxHex) ==
    [metaId |-> UserLast.metaid, address |-> UserLast.address,
     fileName |-> fl.file.name, storageKey |-> fl.storageKey,
     chunkPreTxHex |-> fl.chunkPreTxHex, indexPreTxHex |-> indexPreTxHex,
     mergeTxHex |-> fl.mergeResult.mergeTxHex, feeRate |-> feeRateOf(fl.mvcFeeRate)]

\* mutant: the run starts with the fee estimate, the file not yet uploaded
StartChunkedEstimatingFirst(asynchronous, mvcFeeRate, dependencies) ==
    /\ flow.pc = "idle"
    /\ dependencies
    /\ flow' = [NewFlow EXCEPT !.pc = "estimate", !.kind = "chunked", !.file = FlowFile,
                               !.asynchronous = asynchronous,
                               !.mvcFeeRate = mvcFeeRate, !.toast = "info"]
    /\ wire' = Send(wire, "estimate", [fileName |-> FlowFile.name, storageKey |-> "",
                                       feeRate |-> feeRateOf(mvcFeeRate)])
    /\ settled' = NoResult
    /\ UNCHANGED wallet

\* runChunkedUploadFlow is called; without its stores it throws before the
\* try block, otherwise it awaits uploadFileToOSS(file)
StartChunked(asynchronous, mvcFeeRate, dependencies) ==
    /\ flow.pc = "idle"
    /\ IF dependencies
       THEN /\ flow' = [NewFlow EXCEPT !.pc = "oss", !.kind = "chunked", !.file = FlowFile,
                                       !.asynchronous = asynchronous,
                                       !.mvcFeeRate = mvcFeeRate, !.toast = "info"]
            /\ wire' = Send(wire, "uploadFileToOSS", FlowFile)
            /\ settled' = NoResult
       ELSE /\ flow' = [NewFlow EXCEPT !.pc = "done", !.kind = "chunked"]
            /\ wire' = wire
            /\ settled' = Thrown(Err("", "Required dependencies (toast, chainStore, userStore) are not available"))
    /\ UNCHANGED wallet

\* uploadFileToOSS settles; estimateChunkedUploadFee sends its request unless
\* the storage key is falsy
OssSettled(ok, storageKey) ==
    /\ flow.pc = "oss"
    /\ IF ~ok
       THEN /\ wire' = Answer(wire, "fail")
            /\ Caught(flow, Err("Failed to upload file to OSS: ", "request"))
       ELSE IF storageKey = ""
       THEN /\ wire' = Answer(wire, "ok")
            /\ Caught(flow, Err("Failed to estimate fee: ",
                                "Either storageKey or content must be provided"))
       ELSE /\ wire' = Send(Answer(wire, "ok"), "estimate",
                            [fileName |-> flow.file.name, storageKey |-> storageKey,
                             feeRate |-> feeRateOf(flow.mvcFeeRate)])
            /\ flow' = [flow EXCEPT !.pc = "estimate", !.storageKey = storageKey]
            /\ settled' = settled
    /\ UNCHANGED wallet

\* the estimate request is answered; on success the confirmation dialog opens
EstimateResponse(outcome, estimateResult) ==
    /\ flow.pc = "estimate"
    /\ IF outcome \in FailOutcomes
       THEN /\ wire' = Answer(wire, "fail")
            /\ Caught(flow, Err("Failed to estimate fee: ", outcome))
       ELSE IF outcome = "nodata"
       THEN /\ wire' = Answer(wire, "ok")
            /\ Caught(flow, Err("", "TypeError"))
       ELSE /\ wire' = Send(Answer(wire, "ok"), "dialog", estimateResult)
            /\ flow' = [flow EXCEPT !.pc = "confirm", !.estimateResult = estimateResult]
            /\ settled' = settled
    /\ UNCHANGED wallet

\* mutant: the answer of the dialog is not looked at
ConfirmationUnread(confirmed) ==
    /\ flow.pc = "confirm"
    /\ LET feeRate == feeRateOf(flow.mvcFeeRate)
           chunkPreTxBuildFee == (preTxBaseSize + preTxInputSize) * feeRate
           indexPreTxBuildFee == (preTxBaseSize + preTxInputSize) * feeRate
           chunkAmount == flow.estimateResult.chunkPreTxFee + chunkPreTxBuildFee
           indexAmount == flow.estimateResult.indexPreTxFee + indexPreTxBuildFee
           mergeTxSize == mergeTxBaseSize + (mergeTxInputSize * estimatedMergeTxInputs)
                              + (mergeTxOutputSize * 2)
           mergeTxFee == mergeTxSize * feeRate
       IN  /\ flow' = [flow EXCEPT !.pc = "utxos",
                                   !.chunkPreTxOutputAmount = chunkAmount,
                                   !.indexPreTxOutputAmount = indexAmount,
                                   !.mergeTxFee = mergeTxFee,
                                   !.totalRequiredAmount = chunkAmount + indexAmount + mergeTxFee]
           /\ wire' = Send(Answer(wire, IF confirmed THEN "ok" ELSE "declined"),
                           "getUtxos", chunkAmount + indexAmount + mergeTxFee)
           /\ settled' = settled
    /\ UNCHANGED wallet

\* the user answers the dialog; on confirmation the amounts are computed and
\* getWalletUTXOs asks the wallet for its UTXOs
Confirmation(confirmed) ==
    /\ flow.pc = "confirm"
    /\ IF ~confirmed
       THEN /\ wire' = Answer(wire, "declined")
            /\ flow' = [flow EXCEPT !.pc = "done"]
            /\ settled' = Resolved(Undefined)
       ELSE LET feeRate == feeRateOf(flow.mvcFeeRate)
                chunkPreTxBuildFee == (preTxBaseSize + preTxInputSize) * feeRate
                indexPreTxBuildFee == (preTxBaseSize + preTxInputSize) * feeRate
                chunkAmount == flow.estimateResult.chunkPreTxFee + chunkPreTxBuildFee
                indexAmount == flow.estimateResult.indexPreTxFee + indexPreTxBuildFee
                mergeTxSize == mergeTxBaseSize + (mergeTxInputSize * estimatedMergeTxInputs)
                                   + (mergeTxOutputSize * 2)
                mergeTxFee == mergeTxSize * feeRate
            IN  /\ flow' = [flow EXCEPT !.pc = "utxos",
                                        !.chunkPreTxOutputAmount = chunkAmount,
                                        !.indexPreTxOutputAmount = indexAmount,
                                        !.mergeTxFee = mergeTxFee,
                                        !.totalRequiredAmount = chunkAmount + indexAmount + mergeTxFee]
                /\ wire' = Send(Answer(wire, "ok"), "getUtxos", chunkAmount + indexAmount + mergeTxFee)
                /\ settled' = settled
    /\ UNCHANGED wallet

\* buildChunkFundingPreTx or buildIndexPreTx up to its signTransaction call:
\* the library serializes the transaction for the request, which it may
\* refuse when the output index is -1
AskSignature(fl, w, utxoData, sigtype, prefix, nextPc, serializes) ==
    IF utxoData.utxos[1].outputIndex < 0 /\ ~serializes
    THEN /\ wire' = w
         /\ Caught(fl, Err(prefix, "library"))
    ELSE /\ wire' = Send(w, "signTransaction", SignRequest(PreTx(utxoData), utxoData, 0, sigtype))
         /\ flow' = [fl EXCEPT !.pc = nextPc, !.tx = PreTx(utxoData)]
         /\ settled' = settled

\* the wallet answers getUtxos; getWalletUTXOs selects, and
\* buildChunkedUploadMergeTx hands the merge transaction to pay
GetUtxosResponse(answers, cause, hasPay) ==
    /\ flow.pc = "utxos"
    /\ LET got == IF answers THEN getWalletUTXOs(wallet, flow.totalRequiredAmount)
                  ELSE UtxoRejected(cause)
       IN  IF got.status = "rejected"
           THEN /\ wire' = Answer(wire, IF answers THEN "ok" ELSE "fail")
                /\ Caught(flow, Err("Failed to get UTXOs: ", got.cause))
           ELSE IF ~hasPay
           THEN /\ wire' = Answer(wire, "ok")
                /\ Caught([flow EXCEPT !.allUtxos = got.value],
                          Err("Failed to build merge transaction: ",
                              "Wallet does not support pay method"))
           ELSE /\ wire' = Send(Answer(wire, "ok"), "pay",
                                [txComposer |-> Serialize(MergeTx(got.value, UserLast.address,
                                                                  flow.chunkPreTxOutputAmount,
                                                                  flow.indexPreTxOutputAmount)),
                                 message |-> "Merge UTXOs for chunked upload",
                                 feeb |-> feeRateOf(flow.mvcFeeRate)])
                /\ flow' = [flow EXCEPT !.pc = "pay", !.allUtxos = got.value, !.toast = "info"]
                /\ settled' = settled
    /\ UNCHANGED wallet

\* the wallet answers pay; the outputs of the paid transaction are matched
\* and buildChunkFundingPreTx asks for the signature of its input
PayResponse(outcome, cause, added, outs, serializes) ==
    /\ flow.pc = "pay"
    /\ IF outcome = "reject"
       THEN /\ wire' = Answer(wire, "fail")
            /\ Caught(flow, Err("Failed to build merge transaction: ", cause))
       ELSE IF outcome = "malformed"
       THEN /\ wire' = Answer(wire, "fail")
            /\ Caught(flow, Err("Failed to build merge transaction: ", "TypeError"))
       ELSE LET paid == PaidTx(PayRequestTx, added, outs)
                mergeResult == MergeResult(paid, UserLast.address,
                                           flow.chunkPreTxOutputAmount,
                                           flow.indexPreTxOutputAmount)
                chunkPreTxUtxo == PreTxUtxo(mergeResult.mergeTxId,
                                            mergeResult.chunkPreTxOutputIndex,
                                            mergeResult.chunkPreTxScript,
                                            flow.chunkPreTxOutputAmount)
            IN  AskSignature([flow EXCEPT !.mergeResult = mergeResult, !.toast = "info"],
                             Answer(wire, "ok"), chunkPreTxUtxo, ChunkRequestSigtype,
                             "Failed to build chunk funding pre-tx: ", "signChunk", serializes)
    /\ UNCHANGED wallet

\* the wallet answers the signature request of the chunk pre-transaction;
\* buildIndexPreTx asks for the signature of its input
SignChunkResponse(outcome, cause, serializes) ==
    /\ flow.pc = "signChunk"
    /\ IF outcome = "reject"
       THEN /\ wire' = Answer(wire, "fail")
            /\ Caught(flow, Err("Failed to build chunk funding pre-tx: ", cause))
       ELSE IF outcome = "missing"
       THEN /\ wire' = Answer(wire, "fail")
            /\ Caught(flow, Err("Failed to build chunk funding pre-tx: ", "TypeError"))
       ELSE LET signed == setScript(flow.tx, 1,
                                    UnlockingScript(wire[Len(wire)].req.sigtype, ChunkScriptSigtype))
                indexPreTxUtxo == PreTxUtxo(flow.mergeResult.mergeTxId,
                                            flow.mergeResult.indexPreTxOutputIndex,
                                            flow.mergeResult.indexPreTxScript,
                                            flow.indexPreTxOutputAmount)
            IN  AskSignature([flow EXCEPT !.chunkPreTxHex = RawHex(signed)],
                             Answer(wire, "ok"), indexPreTxUtxo, IndexRequestSigtype,
                             "Failed to build index pre-tx: ", "signIndex", serializes)
    /\ UNCHANGED wallet

\* mutant: the progress grows by a whole point more each second
ProgressFaster(elapsedSeconds, estimatedTotalSeconds) ==
    [num |-> 50 * estimatedTotalSeconds + (40 + estimatedTotalSeconds) * elapsedSeconds,
     den |-> estimatedTotalSeconds]

\* baseProgress + (uploadProgressRange / estimatedTotalSeconds) * elapsedSeconds,
\* as a fraction
Progress(elapsedSeconds, estimatedTotalSeconds) ==
    [num |-> 50 * estimatedTotalSeconds + 40 * elapsedSeconds, den |-> estimatedTotalSeconds]

\* the wallet answers the signature request of the index pre-transaction;
\* createChunkedUploadTask or chunkedUpload sends the three transactions
SignIndexResponse(outcome, cause) ==
    /\ flow.pc = "signIndex"
    /\ IF outcome = "reject"
       THEN /\ wire' = Answer(wire, "fail")
            /\ Caught(flow, Err("Failed to build index pre-tx: ", cause))
       ELSE IF outcome = "missing"
       THEN /\ wire' = Answer(wire, "fail")
            /\ Caught(flow, Err("Failed to build index pre-tx: ", "TypeError"))
       ELSE LET signed == setScript(flow.tx, 1,
                                    UnlockingScript(wire[Len(wire)].req.sigtype, IndexScriptSigtype))
            IN  /\ wire' = Send(Answer(wire, "ok"),
                                IF flow.asynchronous THEN "chunked-upload-task" ELSE "chunked-upload",
                                SubmitBody(flow, RawHex(signed)))
                /\ flow' = IF flow.asynchronous
                            THEN [flow EXCEPT !.pc = "submit", !.indexPreTxHex = RawHex(signed)]
                            ELSE [flow EXCEPT !.pc = "submit", !.indexPreTxHex = RawHex(signed),
                                              \* (chunkedUploadChunkNumber + 1) * 3: with one
                                              \* run, the variable holds the run's own estimate
                                              !.estimatedTotalSeconds =
                                                  (flow.estimateResult.chunkNumber + 1) * 3,
                                              !.currentProgress =
                                                  Progress(0, (flow.estimateResult.chunkNumber + 1) * 3),
                                              !.elapsedSeconds = 0,
                                              !.progressInterval = TRUE,
                                              !.isApiReturned = FALSE]
                /\ settled' = settled
    /\ UNCHANGED wallet

\* the callback of the progress timer runs; the timer is set when the
\* synchronous submission is sent
ProgressTick ==
    /\ flow.pc = "submit"
    /\ flow.progressInterval
    /\ IF flow.isApiReturned
       THEN flow' = [flow EXCEPT !.progressInterval = FALSE]
       ELSE LET elapsedSeconds == flow.elapsedSeconds + 1
                currentProgress == Progress(elapsedSeconds, flow.estimatedTotalSeconds)
            IN  IF currentProgress.num >= 90 * currentProgress.den
                THEN flow' = [flow EXCEPT !.elapsedSeconds = elapsedSeconds,
                                          !.currentProgress = [num |-> 90, den |-> 1],
                                          !.progressInterval = FALSE]
                ELSE flow' = [flow EXCEPT !.elapsedSeconds = elapsedSeconds,
                                          !.currentProgress = currentProgress]
    /\ UNCHANGED <<wire, settled, wallet>>

\* mutant: the response is noted and the timer left running
ReturnedTimerRunning(fl) == IF fl.asynchronous THEN fl
                            ELSE [fl EXCEPT !.isApiReturned = TRUE]

\* the locals of the run once chunkedUpload has resolved or rejected:
\* isApiReturned = true and the timer, if one was started, cleared
Returned(fl) == IF fl.asynchronous THEN fl
                ELSE [fl EXCEPT !.isApiReturned = TRUE, !.progressInterval = FALSE]

\* the backend answers the submission
SubmitResponse(outcome, status) ==
    /\ flow.pc = "submit"
    /\ IF outcome \in FailOutcomes
       THEN /\ wire' = Answer(wire, "fail")
            /\ Caught(Returned(flow), Err(IF flow.asynchronous THEN "Chunked upload task failed: "
                                          ELSE "ChunkedUpload failed: ", outcome))
       ELSE IF flow.asynchronous
       THEN \* loadChunkTasks({append: false, silent: true}) is fired, not awaited
            /\ wire' = Send(Answer(wire, "ok"), "tasks", [cursor |-> 0])
            /\ flow' = [flow EXCEPT !.pc = "done", !.toast = "success"]
            /\ settled' = Resolved(Undefined)
       ELSE IF outcome = "nodata"
       THEN /\ wire' = Answer(wire, "ok")
            /\ Caught(Returned(flow), Err("", "TypeError"))
       ELSE IF status = "failed"
       THEN /\ wire' = Answer(wire, "ok")
            /\ Caught(Returned(flow), Err("", "Upload failed with unknown error"))
       ELSE /\ wire' = Answer(wire, "ok")
            /\ flow' = [Returned(flow) EXCEPT !.pc = "done", !.toast = "success"]
            /\ settled' = Resolved([txId |-> "indexTxId", pinId |-> "indexTxId" \o "i0"])
    /\ UNCHANGED wallet

----------------------------------------------------------------------------
(* uploadFileToChainDirect *)

\* the catch block of uploadFileToChainDirect: the error is thrown again
Rethrown(fl, error) ==
    /\ flow' = [fl EXCEPT !.pc = "done"]
    /\ settled' = Thrown(error)

\* estimateUploadFee: Math.ceil(Math.ceil(size * feeRate) * 1.2)
estimateUploadFee(file, mvcFeeRate) ==
    LET path == 5                                   \* '/file'.length
        metadataSize == 6 + 10 + path + 10 + 10 + 50
        opReturnSize == 50 + metadataSize + file.size
        estimatedTxSize == 200 + 150 + 34 * 2 + opReturnSize
        estimatedFee == estimatedTxSize * feeRateOf(mvcFeeRate)
    IN  MathCeilDiv(estimatedFee * 12, 10)

\* the transaction mergeUTXOs hands to pay: one output and no input
DirectMergeTx(address, estimatedFee) == Transaction(<<>>, <<TxOutput(address, estimatedFee)>>)

\* the search of mergeUTXOs for the first output to the user's address from
\* output i (0-based) on; -1 when there is none
RECURSIVE FirstOwnOutput(_, _, _)
FirstOwnOutput(outputs, i, address) ==
    IF i >= Len(outputs) THEN -1
    ELSE IF HasAddress(outputs[i + 1]) /\ outputs[i + 1].address = address THEN i
    ELSE FirstOwnOutput(outputs, i + 1, address)

\* the transaction of buildAndSignBaseTx before it is signed
BaseTx(utxo) == Transaction(<<TxInput(utxo)>>, <<TxOutput(UserLast.address, 1)>>)

\* buildAndSignBaseTx up to its signTransaction call
AskBaseSignature(fl, w, utxoData) ==
    IF Len(utxoData.utxos) # 1
    THEN /\ wire' = w
         /\ Rethrown(fl, Err("Failed to build/sign MVC transaction: ",
                             "SIGHASH_SINGLE requires exactly 1 UTXO"))
    ELSE /\ wire' = Send(w, "signTransaction",
                         SignRequest(BaseTx(utxoData.utxos[1]), utxoData, 0, BaseRequestSigtype))
         /\ flow' = [fl EXCEPT !.pc = "d_sign", !.finalUtxo = utxoData,
                               !.tx = BaseTx(utxoData.utxos[1]), !.toast = "info"]
         /\ settled' = settled

\* uploadFileToChainDirect is called: the fee is estimated and getWalletUTXOs
\* asks the wallet for its UTXOs
StartDirect(mvcFeeRate, dependencies) ==
    /\ flow.pc = "idle"
    /\ IF dependencies
       THEN /\ flow' = [NewFlow EXCEPT !.pc = "d_utxos", !.kind = "direct", !.file = FlowFile,
                                       !.mvcFeeRate = mvcFeeRate,
                                       !.estimatedFee = estimateUploadFee(FlowFile, mvcFeeRate)]
            /\ wire' = Send(wire, "getUtxos", estimateUploadFee(FlowFile, mvcFeeRate))
            /\ settled' = NoResult
       ELSE /\ wire' = wire
            /\ Rethrown([NewFlow EXCEPT !.kind = "direct"],
                        Err("", "Required dependencies (toast, chainStore, userStore) are not available"))
    /\ UNCHANGED wallet

\* the answer to getUtxos with a merge only for more than two selected UTXOs
DirectGetUtxosResponseOverTwo(answers, cause, hasPay) ==
    /\ flow.pc = "d_utxos"
    /\ LET got == IF answers THEN getWalletUTXOs(wallet, flow.estimatedFee)
                  ELSE UtxoRejected(cause)
       IN  IF got.status = "rejected"
           THEN /\ wire' = Answer(wire, IF answers THEN "ok" ELSE "fail")
                /\ Rethrown(flow, Err("Failed to get UTXOs: ", got.cause))
           ELSE IF Len(got.value.utxos) > 2
           THEN IF ~hasPay
                THEN /\ wire' = Answer(wire, "ok")
                     /\ Rethrown([flow EXCEPT !.allUtxos = got.value],
                                 Err("Failed to merge UTXOs: ", "Wallet does not support pay method"))
                ELSE /\ wire' = Send(Answer(wire, "ok"), "pay",
                                     [txComposer |-> Serialize(DirectMergeTx(UserLast.address,
                                                                             flow.estimatedFee)),
                                      message |-> "Merge UTXOs",
                                      feeb |-> feeRateOf(flow.mvcFeeRate)])
                     /\ flow' = [flow EXCEPT !.pc = "d_pay", !.allUtxos = got.value]
                     /\ settled' = settled
           ELSE AskBaseSignature([flow EXCEPT !.allUtxos = got.value], Answer(wire, "ok"),
                                 [utxos |-> got.value.utxos, totalAmount |-> got.value.totalAmount])
    /\ UNCHANGED wallet

\* the wallet answers getUtxos: several selected UTXOs are merged through pay,
\* a single one goes to buildAndSignBaseTx
DirectGetUtxosResponse(answers, cause, hasPay) ==
    /\ flow.pc = "d_utxos"
    /\ LET got == IF answers THEN getWalletUTXOs(wallet, flow.estimatedFee)
                  ELSE UtxoRejected(cause)
       IN  IF got.status = "rejected"
           THEN /\ wire' = Answer(wire, IF answers THEN "ok" ELSE "fail")
                /\ Rethrown(flow, Err("Failed to get UTXOs: ", got.cause))
           ELSE IF Len(got.value.utxos) > 1
           THEN IF ~hasPay
                THEN /\ wire' = Answer(wire, "ok")
                     /\ Rethrown([flow EXCEPT !.allUtxos = got.value],
                                 Err("Failed to merge UTXOs: ", "Wallet does not support pay method"))
                ELSE /\ wire' = Send(Answer(wire, "ok"), "pay",
                                     [txComposer |-> Serialize(DirectMergeTx(UserLast.address,
                                                                             flow.estimatedFee)),
                                      message |-> "Merge UTXOs",
                                      feeb |-> feeRateOf(flow.mvcFeeRate)])
                     /\ flow' = [flow EXCEPT !.pc = "d_pay", !.allUtxos = got.value]
                     /\ settled' = settled
           ELSE AskBaseSignature([flow EXCEPT !.allUtxos = got.value], Answer(wire, "ok"),
                                 [utxos |-> got.value.utxos, totalAmount |-> got.value.totalAmount])
    /\ UNCHANGED wallet

\* the wallet answers pay: the merged output becomes the only UTXO
DirectPayResponse(outcome, cause, added, outs) ==
    /\ flow.pc = "d_pay"
    /\ IF outcome = "reject"
       THEN /\ wire' = Answer(wire, "fail")
            /\ Rethrown(flow, Err("Failed to merge UTXOs: ", cause))
       ELSE IF outcome = "malformed"
       THEN /\ wire' = Answer(wire, "fail")
            /\ Rethrown(flow, Err("Failed to merge UTXOs: ", "TypeError"))
       ELSE IF Len(outs) = 0
       THEN \* the fallback reads parsedMergeTx.outputs[0].satoshis
            /\ wire' = Answer(wire, "ok")
            /\ Rethrown(flow, Err("Failed to merge UTXOs: ", "TypeError"))
       ELSE LET paid == PaidTx(PayRequestTx, added, outs)
                outputs == RawHex(paid).outputs
                found == FirstOwnOutput(outputs, 0, UserLast.address)
                mergedOutputIndex == IF found = -1 THEN 0 ELSE found
                newUtxo == [txId |-> TxIdOf(paid), outputIndex |-> mergedOutputIndex,
                            script |-> OutputScript(outputs[mergedOutputIndex + 1]),
                            satoshis |-> outputs[mergedOutputIndex + 1].satoshis]
            IN  AskBaseSignature([flow EXCEPT !.mergeTxHex = RawHex(paid)], Answer(wire, "ok"),
                                 [utxos |-> <<newUtxo>>, totalAmount |-> newUtxo.satoshis])
    /\ UNCHANGED wallet

\* the wallet answers the signature request of the base transaction;
\* directUpload posts the form
DirectSignResponse(outcome, cause) ==
    /\ flow.pc = "d_sign"
    /\ IF outcome = "reject"
       THEN /\ wire' = Answer(wire, "fail")
            /\ Rethrown(flow, Err("Failed to build/sign MVC transaction: ", cause))
       ELSE IF outcome = "missing"
       THEN /\ wire' = Answer(wire, "fail")
            /\ Rethrown(flow, Err("Failed to build/sign MVC transaction: ", "Failed to get signature"))
       ELSE LET signed == setScript(flow.tx, 1,
                                    UnlockingScript(wire[Len(wire)].req.sigtype, BaseScriptSigtype))
            IN  /\ wire' = Send(Answer(wire, "ok"), "direct-upload",
                                [preTxHex |-> RawHex(signed), mergeTxHex |-> flow.mergeTxHex,
                                 metaId |-> UserLast.metaid, address |-> UserLast.address,
                                 changeAddress |-> UserLast.address,
                                 \* chainStore.mvcFeeRate().toString() || '1'
                                 feeRate |-> IF ToString(flow.mvcFeeRate) = "" THEN "1"
                                             ELSE ToString(flow.mvcFeeRate),
                                 totalInputAmount |-> flow.finalUtxo.totalAmount])
                /\ flow' = [flow EXCEPT !.pc = "d_upload"]
                /\ settled' = settled
    /\ UNCHANGED wallet

\* the backend answers direct-upload
DirectUploadResponse(outcome) ==
    /\ flow.pc = "d_upload"
    /\ IF outcome \in FailOutcomes
       THEN /\ wire' = Answer(wire, "fail")
            /\ Rethrown(flow, Err("DirectUpload failed: ", outcome))
       ELSE IF outcome = "nodata"
       THEN /\ wire' = Answer(wire, "ok")
            /\ Rethrown(flow, Err("DirectUpload failed: ", "TypeError"))
       ELSE /\ wire' = Answer(wire, "ok")
            /\ flow' = [flow EXCEPT !.pc = "done"]
            /\ settled' = Resolved([txId |-> "txId", pinId |-> "txId" \o "i0"])
    /\ UNCHANGED wallet

----------------------------------------------------------------------------
(* SpecFlow: one run of either flow *)

\* the messages a refusal may carry; other answers carry none
CausesOf(o) == IF o = "reject" THEN {"user cancelled", "wallet error"} ELSE {"none"}

\* a run starts with the wallet holding no UTXO, two of 1000 satoshis, one of
\* 9000, two of 4000 and one at the dust limit, or three of 1100
FlowInit ==
    /\ wallet \in {WalletOf(vs) : vs \in {<<>>, <<1000, 1000>>, <<9000>>, <<4000, 600, 4000>>,
                                          <<1100, 1100, 1100>>}}
    /\ requiredAmount = 0
    /\ selection = NoResult
    /\ InitFlow
    /\ InitTasks
    /\ InitStatus
    /\ InitRuns
    /\ InitOss
    /\ InitKey

\* the steps of the two flows. The environment chooses: the key
\* uploadFileToOSS resolves with (completeResult.data.key may be empty); the
\* result.data of estimate-chunked-upload, with fees more than the tolerance
\* apart, within the tolerance of each other, or equal; whether a wallet call
\* is refused, answers something unusable or answers; the transaction pay
\* returns, of up to MaxOutputs outputs, with or without an input added by
\* the wallet; the status a synchronous upload reports.
FlowNext ==
    \/ \E asynchronous \in BOOLEAN, mvcFeeRate \in {0, 2}, dependencies \in BOOLEAN :
          /\ StartChunked(asynchronous, mvcFeeRate, dependencies)
          /\ UNCHANGED <<ossVars, keyVars, requiredAmount, selection, taskVars, statusVars, runVars>>
    \/ \E ok \in BOOLEAN, storageKey \in {"k1", ""} :
          /\ OssSettled(ok, storageKey)
          /\ UNCHANGED <<ossVars, keyVars, requiredAmount, selection, taskVars, statusVars, runVars>>
    \/ \E o \in FailOutcomes \cup {"nodata", "ok"},
          estimateResult \in
            {[chunkPreTxFee |-> 3000, indexPreTxFee |-> 500, chunkNumber |-> 2],
             [chunkPreTxFee |-> 1000, indexPreTxFee |-> 1500, chunkNumber |-> 1],
             [chunkPreTxFee |-> 1000, indexPreTxFee |-> 1000, chunkNumber |-> 1]} :
          /\ EstimateResponse(o, estimateResult)
          /\ UNCHANGED <<ossVars, keyVars, requiredAmount, selection, taskVars, statusVars, runVars>>
    \/ \E confirmed \in BOOLEAN :
          /\ Confirmation(confirmed)
          /\ UNCHANGED <<ossVars, keyVars, requiredAmount, selection, taskVars, statusVars, runVars>>
    \/ \E answers \in BOOLEAN, cause \in CausesOf("reject"), hasPay \in BOOLEAN :
          /\ GetUtxosResponse(answers, cause, hasPay)
          /\ UNCHANGED <<ossVars, keyVars, requiredAmount, selection, taskVars, statusVars, runVars>>
    \/ \E o \in {"reject", "malformed", "ok"}, serializes \in BOOLEAN :
       \E cause \in CausesOf(o), added \in (IF o = "ok" THEN BOOLEAN ELSE {FALSE}),
                 n \in (IF o = "ok" THEN 0..MaxOutputs ELSE {0}) :
          /\ flow.pc = "pay"
          /\ \E outs \in [1..n -> PaidOutputs(PayRequestTx.outputs)] :
                PayResponse(o, cause, added, outs, serializes)
          /\ UNCHANGED <<ossVars, keyVars, requiredAmount, selection, taskVars, statusVars, runVars>>
    \/ \E o \in {"reject", "missing", "ok"}, serializes \in BOOLEAN :
       \E cause \in CausesOf(o) :
          /\ SignChunkResponse(o, cause, serializes)
          /\ UNCHANGED <<ossVars, keyVars, requiredAmount, selection, taskVars, statusVars, runVars>>
    \/ \E o \in {"reject", "missing", "ok"} :
       \E cause \in CausesOf(o) :
          /\ SignIndexResponse(o, cause)
          /\ UNCHANGED <<ossVars, keyVars, requiredAmount, selection, taskVars, statusVars, runVars>>
    \/ \E o \in FailOutcomes \cup {"nodata", "ok"}, status \in {"success", "failed"} :
          /\ SubmitResponse(o, status)
          /\ UNCHANGED <<ossVars, keyVars, requiredAmount, selection, taskVars, statusVars, runVars>>
    \/ /\ ProgressTick
       /\ UNCHANGED <<ossVars, keyVars, requiredAmount, selection, taskVars, statusVars, runVars>>
    \/ \E mvcFeeRate \in {0, 2}, dependencies \in BOOLEAN :
          /\ StartDirect(mvcFeeRate, dependencies)
          /\ UNCHANGED <<ossVars, keyVars, requiredAmount, selection, taskVars, statusVars, runVars>>
    \/ \E answers \in BOOLEAN, cause \in CausesOf("reject"), hasPay \in BOOLEAN :
          /\ DirectGetUtxosResponse(answers, cause, hasPay)
          /\ UNCHANGED <<ossVars, keyVars, requiredAmount, selection, taskVars, statusVars, runVars>>
    \/ \E o \in {"reject", "malformed", "ok"} :
       \E cause \in CausesOf(o), added \in (IF o = "ok" THEN BOOLEAN ELSE {FALSE}),
                 n \in (IF o = "ok" THEN 0..MaxOutputs ELSE {0}) :
          /\ flow.pc = "d_pay"
          /\ \E outs \in [1..n -> PaidOutputs(PayRequestTx.outputs)] :
                DirectPayResponse(o, cause, added, outs)
          /\ UNCHANGED <<ossVars, keyVars, requiredAmount, selection, taskVars, statusVars, runVars>>
    \/ \E o \in {"reject", "missing", "ok"} :
       \E cause \in CausesOf(o) :
          /\ DirectSignResponse(o, cause)
          /\ UNCHANGED <<ossVars, keyVars, requiredAmount, selection, taskVars, statusVars, runVars>>
    \/ \E o \in FailOutcomes \cup {"nodata", "ok"} :
          /\ DirectUploadResponse(o)
          /\ UNCHANGED <<ossVars, keyVars, requiredAmount, selection, taskVars, statusVars, runVars>>

SpecFlow == FlowInit /\ [][FlowNext]_vars

----------------------------------------------------------------------------
(* Claims about the two flows, checked under SpecFlow *)

\* the positions in wire of the requests of an operation
Events(ops) == {i \in 1..Len(wire) : wire[i].op \in ops}

\* the effective fee rate of the run
RunFeeRate == IF flow.mvcFeeRate = 0 THEN 1 ELSE flow.mvcFeeRate

\* the two funding amounts of the run, from the estimate and the size model
ChunkAmountOfRun == flow.estimateResult.chunkPreTxFee + 350 * RunFeeRate
IndexAmountOfRun == flow.estimateResult.indexPreTxFee + 350 * RunFeeRate

\* C13: the transaction buildChunkedUploadMergeTx hands to pay has the
\* selected UTXOs as its inputs, each once, and exactly two outputs, both to
\* the user's address, of chunkPreTxOutputAmount then indexPreTxOutputAmount.
C13_MergeRequestShape ==
    flow.kind = "chunked" =>
        \A e \in Events({"pay"}) :
            LET tx == wire[e].req.txComposer.tx
                sel == flow.allUtxos.utxos
            IN  /\ Len(tx.inputs) = Len(sel)
                /\ \A i \in 1..Len(sel) :
                      /\ tx.inputs[i].txId = sel[i].txId
                      /\ tx.inputs[i].outputIndex = sel[i].outputIndex
                      /\ tx.inputs[i].satoshis = sel[i].satoshis
                      /\ tx.inputs[i].script = sel[i].script
                      /\ \E j \in 1..Len(wallet) : wallet[j].txid = tx.inputs[i].txId
                /\ \A i, j \in 1..Len(tx.inputs) :
                      i # j => <<tx.inputs[i].txId, tx.inputs[i].outputIndex>>
                                  # <<tx.inputs[j].txId, tx.inputs[j].outputIndex>>
                /\ Len(tx.outputs) = 2
                /\ tx.outputs[1] = [address |-> UserLast.address, satoshis |-> ChunkAmountOfRun]
                /\ tx.outputs[2] = [address |-> UserLast.address, satoshis |-> IndexAmountOfRun]

\* a merge request of two selected UTXOs and two different amounts
C13_Witness ==
    /\ flow.kind = "chunked"
    /\ \E e \in Events({"pay"}) :
          /\ Len(wire[e].req.txComposer.tx.inputs) = 2
          /\ ChunkAmountOfRun # IndexAmountOfRun

\* an output of the user within the tolerance of an amount
Matches(output, amount) ==
    /\ output.address = UserLast.address
    /\ output.satoshis - amount <= 1000
    /\ amount - output.satoshis <= 1000

\* the lowest 0-based index in outputs, outside skip, of an output matching
\* amount, or -1
LowestMatch(outputs, amount, skip) ==
    LET hits == {i \in 0..(Len(outputs) - 1) : i \notin skip /\ Matches(outputs[i + 1], amount)}
    IN  IF hits = {} THEN -1 ELSE CHOOSE i \in hits : \A k \in hits : i <= k

\* buildChunkedUploadMergeTx has returned in this run
Merged == flow.kind = "chunked" /\ flow.mergeResult # Undefined

\* C14: the indices buildChunkedUploadMergeTx returns are those of the
\* two-step rule: the lowest output of the user within 1000 of the chunk
\* amount, then the lowest other output of the user within 1000 of the index
\* amount, -1 where there is none.
C14_SinglePassIsTwoStep ==
    Merged =>
        LET outputs == flow.mergeResult.mergeTxHex.outputs
            chunk == LowestMatch(outputs, ChunkAmountOfRun, {})
        IN  /\ flow.mergeResult.chunkPreTxOutputIndex = chunk
            /\ flow.mergeResult.indexPreTxOutputIndex = LowestMatch(outputs, IndexAmountOfRun, {chunk})

\* a paid transaction whose first output matches both amounts and is claimed
\* as the chunk output, the index output being the one behind it
C14_Witness ==
    /\ Merged
    /\ Len(flow.mergeResult.mergeTxHex.outputs) = 2
    /\ ChunkAmountOfRun # IndexAmountOfRun
    /\ Matches(flow.mergeResult.mergeTxHex.outputs[1], IndexAmountOfRun)
    /\ Matches(flow.mergeResult.mergeTxHex.outputs[1], ChunkAmountOfRun)
    /\ flow.mergeResult.chunkPreTxOutputIndex = 0
    /\ flow.mergeResult.indexPreTxOutputIndex = 1

\* the submissions of the chunked flow
Submissions == Events({"chunked-upload-task", "chunked-upload"})

\* C15: when the paid merge transaction has no output matching the chunk
\* amount or none matching the index amount, buildChunkedUploadMergeTx fails
\* instead of returning, no signature is asked for an input with output index
\* -1 and no pre-transaction with such an input is submitted.
C15_UnmatchedOutputsAbort ==
    flow.kind = "chunked" =>
        /\ flow.mergeResult # Undefined =>
              /\ flow.mergeResult.chunkPreTxOutputIndex # -1
              /\ flow.mergeResult.indexPreTxOutputIndex # -1
        /\ \A e \in Events({"signTransaction"}) : wire[e].req.txHex.inputs[1].outputIndex # -1
        /\ \A e \in Submissions :
              /\ wire[e].req.chunkPreTxHex.inputs[1].outputIndex # -1
              /\ wire[e].req.indexPreTxHex.inputs[1].outputIndex # -1

\* the 0-based indices of the outputs of the paid transaction that pay the user
OwnOutputs == {i \in 0..(Len(flow.mergeResult.mergeTxHex.outputs) - 1) :
                  flow.mergeResult.mergeTxHex.outputs[i + 1].address = UserLast.address}

\* the paid transaction has two outputs to the user, one of each requested amount
TwoOwnOutputs ==
    /\ Merged
    /\ Cardinality(OwnOutputs) = 2
    /\ \E i, j \in OwnOutputs :
          /\ i # j
          /\ flow.mergeResult.mergeTxHex.outputs[i + 1].satoshis = ChunkAmountOfRun
          /\ flow.mergeResult.mergeTxHex.outputs[j + 1].satoshis = IndexAmountOfRun

\* the chunk index names the output of the chunk amount and the index-output
\* index the output of the index amount
AssignedByAmount ==
    /\ flow.mergeResult.chunkPreTxOutputIndex \in OwnOutputs
    /\ flow.mergeResult.indexPreTxOutputIndex \in OwnOutputs
    /\ flow.mergeResult.mergeTxHex.outputs[flow.mergeResult.chunkPreTxOutputIndex + 1].satoshis
          = ChunkAmountOfRun
    /\ flow.mergeResult.mergeTxHex.outputs[flow.mergeResult.indexPreTxOutputIndex + 1].satoshis
          = IndexAmountOfRun

\* C16 as stated: with two outputs to the user of amounts A # B, requesting
\* (A, B) assigns the chunk index to the output of A and the index-output
\* index to the output of B, in both orders of the outputs.
C16_AssignedWhenDifferent ==
    (TwoOwnOutputs /\ ChunkAmountOfRun # IndexAmountOfRun) => AssignedByAmount

\* C16 amended: the same, for amounts A and B more than the tolerance of 1000
\* satoshis apart.
C16_AssignedWhenApart ==
    (TwoOwnOutputs /\ MathAbs(ChunkAmountOfRun - IndexAmountOfRun) > 1000) => AssignedByAmount

\* a paid transaction that carries the output of the index amount first and
\* the output of the chunk amount behind it
C16_Witness ==
    /\ TwoOwnOutputs
    /\ MathAbs(ChunkAmountOfRun - IndexAmountOfRun) > 1000
    /\ Len(flow.mergeResult.mergeTxHex.outputs) = 2
    /\ flow.mergeResult.mergeTxHex.outputs[1].satoshis = IndexAmountOfRun
    /\ flow.mergeResult.mergeTxHex.outputs[1].address = UserLast.address
    /\ flow.mergeResult.chunkPreTxOutputIndex = 1
    /\ flow.mergeResult.indexPreTxOutputIndex = 0

C18_OpenAndFinalApart ==
    flow.kind = "chunked" =>
        /\ \A e \in Events({"signTransaction"}) :
              /\ wire[e].req.sigtype = 66
              /\ Len(wire[e].req.txHex.outputs) = 0
              /\ \A i \in 1..Len(wire[e].req.txHex.inputs) :
                    wire[e].req.txHex.inputs[i].txId = flow.mergeResult.mergeTxId
        /\ \A e \in Submissions :
              /\ \A hex \in {wire[e].req.chunkPreTxHex, wire[e].req.indexPreTxHex} :
                    /\ hex # wire[e].req.mergeTxHex
                    /\ \A i \in 1..Len(hex.inputs) :
                          /\ hex.inputs[i].unlock # Null
                          /\ hex.inputs[i].unlock.sigtype = 66
                          /\ hex.inputs[i].unlock.signedWith = hex.inputs[i].unlock.sigtype
              /\ wire[e].req.mergeTxHex = flow.mergeResult.mergeTxHex
              /\ \A i \in 1..Len(wire[e].req.mergeTxHex.inputs) :
                    /\ wire[e].req.mergeTxHex.inputs[i].unlock # Null
                    /\ wire[e].req.mergeTxHex.inputs[i].unlock.signedWith = PaySigtype
                    /\ wire[e].req.mergeTxHex.inputs[i].unlock.sigtype = PaySigtype

\* a synchronous submission of the three transactions
C18_Witness ==
    /\ flow.kind = "chunked"
    /\ Events({"chunked-upload"}) # {}
    /\ Len(wire[Len(wire)].req.mergeTxHex.inputs) = 3

\* the operations of the requests of the run, in order
Ops == [i \in 1..Len(wire) |-> wire[i].op]

\* the requests that precede the submission in a run of each flow
ChunkedSteps == <<"uploadFileToOSS", "estimate", "dialog", "getUtxos", "pay",
                  "signTransaction", "signTransaction">>
DirectSteps == {<<"getUtxos", "signTransaction">>, <<"getUtxos", "pay", "signTransaction">>}

\* a step of the run has failed
StepFailed ==
    \/ flow.kind = "chunked" /\ flow.toast \in {"warning", "error"}
    \/ flow.kind = "direct" /\ settled.status = "rejected"

\* C19: a submission request is preceded by exactly the steps of its flow,
\* each answered successfully; a request that failed is the last request of
\* the run; and once a step has failed the run is over with no request
\* pending.
C19_SubmitOnlyAfterEveryStep ==
    /\ \A e \in Submissions \cup Events({"direct-upload"}) :
          /\ \A k \in 1..(e - 1) : wire[k].res = "ok"
          /\ wire[e].op = "direct-upload" => SubSeq(Ops, 1, e - 1) \in DirectSteps
          /\ wire[e].op # "direct-upload" => SubSeq(Ops, 1, e - 1) = ChunkedSteps
    /\ \A k \in 1..Len(wire) : wire[k].res = "fail" => k = Len(wire) /\ flow.pc = "done"
    /\ StepFailed =>
          /\ flow.pc = "done"
          /\ wire # <<>> => wire[Len(wire)].res \in {"ok", "fail"}

\* a chunked run in which the wallet refused the second signature: seven
\* requests and no submission
C19_Witness ==
    /\ flow.kind = "chunked"
    /\ Len(wire) = 7
    /\ wire[7].res = "fail"
    /\ StepFailed
    /\ Submissions = {}

\* C20: when a request of a run of runChunkedUploadFlow has failed, the
\* promise it returned rejects.
C20_FailureRejects ==
    (flow.kind = "chunked" /\ flow.pc = "done" /\ \E k \in 1..Len(wire) : wire[k].res = "fail")
        => settled.status = "rejected"

\* the place of a request in the order of steps, the multipart upload being
\* step uploadStep; the confirmation dialog belongs to the estimate
StepRank(op, uploadStep) ==
    CASE op = "uploadFileToOSS" -> uploadStep
      [] op \in {"estimate", "dialog"} -> 1
      [] op = "getUtxos" -> 2
      [] op \in {"pay", "signTransaction"} -> 3
      [] OTHER -> 5

\* the requests of the run are in the order of steps
InStepOrder(uploadStep) ==
    \A i, j \in 1..Len(wire) :
        i < j => StepRank(wire[i].op, uploadStep) <= StepRank(wire[j].op, uploadStep)

\* C21 as stated: the steps of a run occur in the order fee estimation, UTXO
\* selection, merge transaction and pre-transactions, multipart upload,
\* submission.
C21_UploadAfterChain == flow.kind = "chunked" => InStepOrder(4)

\* C21 amended: the multipart upload comes first, then fee estimation, UTXO
\* selection, merge transaction and pre-transactions, submission; each
\* request is sent after the previous one was answered, and carries results
\* of earlier steps only: the estimate the storage key of the upload, getUtxos
\* the amount computed from the estimate, the signature requests the id of
\* the paid merge transaction, the submission the storage key and the signed
\* pre-transactions.
C21_UploadBeforeEstimate ==
    flow.kind = "chunked" =>
        /\ InStepOrder(0)
        /\ \A i \in 1..Len(wire) :
              /\ i < Len(wire) => wire[i].res = "ok"
              /\ i <= Len(ChunkedSteps) => wire[i].op = ChunkedSteps[i]
              /\ wire[i].op = "estimate" =>
                    /\ wire[i].req.storageKey = flow.storageKey
                    /\ flow.storageKey # ""
              /\ wire[i].op = "getUtxos" =>
                    wire[i].req = ChunkAmountOfRun + IndexAmountOfRun + 568 * RunFeeRate
              /\ wire[i].op = "signTransaction" =>
                    wire[i].req.txHex.inputs[1].txId = TxIdOf(flow.mergeResult.mergeTxHex)
              /\ wire[i].op \in {"chunked-upload-task", "chunked-upload"} =>
                    /\ wire[i].req.storageKey = wire[2].req.storageKey
                    /\ wire[i].req.chunkPreTxHex = flow.chunkPreTxHex
                    /\ wire[i].req.indexPreTxHex = flow.indexPreTxHex
                    /\ flow.chunkPreTxHex # Undefined

\* a run that went through every step to a submission
C21_Witness ==
    /\ flow.kind = "chunked"
    /\ Len(wire) > Len(ChunkedSteps)
    /\ wire[1].op = "uploadFileToOSS"
    /\ wire[Len(ChunkedSteps) + 1].op = "chunked-upload-task"

\* C22: every fee rate of a run is the store's rate, or 1 when that rate is
\* falsy: in the estimate request, the funding amounts and the merge fee, the
\* pay call, the submission of either kind and the direct-upload request, and
\* in the fee estimate of the direct flow.
C22_OneFeeRate ==
    /\ \A e \in Events({"estimate"}) \cup Submissions : wire[e].req.feeRate = RunFeeRate
    /\ \A e \in Events({"pay"}) : wire[e].req.feeb = RunFeeRate
    /\ \A e \in Events({"direct-upload"}) : wire[e].req.feeRate = ToString(RunFeeRate)
    /\ (flow.kind = "chunked" /\ flow.allUtxos # Undefined) =>
          /\ flow.chunkPreTxOutputAmount = ChunkAmountOfRun
          /\ flow.indexPreTxOutputAmount = IndexAmountOfRun
          /\ flow.mergeTxFee = 568 * RunFeeRate
    /\ (flow.kind = "direct" /\ flow.pc # "done") =>
          flow.estimatedFee = MathCeilDiv((441 + 559) * RunFeeRate * 12, 10)

----------------------------------------------------------------------------
(* getStatusClass, applied by renderTaskList to the status of each task.
   A string is the sequence of its characters. *)

\* the letters of the status words, each with its upper case
Letters == {<<"a", "A">>, <<"c", "C">>, <<"d", "D">>, <<"e", "E">>, <<"f", "F">>,
            <<"g", "G">>, <<"i", "I">>, <<"l", "L">>, <<"n", "N">>, <<"o", "O">>,
            <<"p", "P">>, <<"r", "R">>, <<"s", "S">>, <<"u", "U">>}

\* String.prototype.toLowerCase
toLowerCase(chars) ==
    [i \in 1..Len(chars) |->
        IF \E l \in Letters : l[2] = chars[i]
        THEN (CHOOSE l \in Letters : l[2] = chars[i])[1]
        ELSE chars[i]]

Str(chars) == [kind |-> "string", chars |-> chars]

Success == <<"s", "u", "c", "c", "e", "s", "s">>
Failed == <<"f", "a", "i", "l", "e", "d">>
Processing == <<"p", "r", "o", "c", "e", "s", "s", "i", "n", "g">>

\* mutant: the status is compared as it is
getStatusClassAsIs(st) ==
    LET normalized == IF st \in {[kind |-> "undefined"], Null} THEN <<>> ELSE st.chars
    IN  IF normalized = Success THEN "success"
        ELSE IF normalized = Failed THEN "failed"
        ELSE IF normalized = Processing THEN "processing"
        ELSE "pending"

\* getStatusClass(status = ''): an undefined argument takes the default, a
\* falsy one (null, '') is replaced by ''
getStatusClass(st) ==
    LET defaulted == IF st = [kind |-> "undefined"] THEN Str(<<>>) ELSE st
        normalized == toLowerCase(IF defaulted = Null THEN <<>> ELSE defaulted.chars)
    IN  IF normalized = Success THEN "success"
        ELSE IF normalized = Failed THEN "failed"
        ELSE IF normalized = Processing THEN "processing"
        ELSE "pending"

\* a word with the letters at the positions up in upper case
Cased(word, up) ==
    [i \in 1..Len(word) |->
        IF i \in up /\ \E l \in Letters : l[1] = word[i]
        THEN (CHOOSE l \in Letters : l[1] = word[i])[2]
        ELSE word[i]]

\* the status strings a task may carry: the three words, words that differ
\* from them by a character, other words and the empty string, in every
\* mix of cases (the longest words all lower, all upper and capitalised),
\* and a missing status
Statuses ==
    {[kind |-> "undefined"], Null}
    \cup {Str(Cased(w, up)) :
            w \in {Success, Failed, <<>>, SubSeq(Success, 1, 6), Success \o <<"s">>,
                   <<" ">> \o Failed, <<"d", "o", "n", "e">>,
                   <<"p", "e", "n", "d", "i", "n", "g">>},
            up \in SUBSET (1..8)}
    \cup {Str(Cased(w, up)) :
            w \in {Processing, SubSeq(Processing, 1, 9), <<"f", "a", "1", "l", "e", "d">>},
            up \in {{}, {1}, 1..10, {2, 4, 6, 8, 10}}}

\* renderTaskList builds the card of a task
RenderCard ==
    /\ statusClass = "none"
    /\ statusClass' = getStatusClass(taskStatus)
    /\ UNCHANGED taskStatus

StatusInit ==
    /\ taskStatus \in Statuses
    /\ statusClass = "none"
    /\ InitOss
    /\ InitKey
    /\ InitUtxo
    /\ InitFlow
    /\ InitTasks
    /\ InitRuns

StatusNext == RenderCard /\ UNCHANGED <<ossVars, keyVars, utxoVars, flowVars, taskVars, runVars>>

SpecStatus == StatusInit /\ [][StatusNext]_vars

\* two strings are equal ignoring case
EqualIgnoringCase(a, b) ==
    /\ Len(a) = Len(b)
    /\ \A i \in 1..Len(a) :
          \/ a[i] = b[i]
          \/ <<a[i], b[i]>> \in Letters
          \/ <<b[i], a[i]>> \in Letters

\* C23: the class of a card is one of success, failed, processing and
\* pending; it is success, failed or processing exactly when the status is
\* that word ignoring case, and pending for every other status, the empty
\* and the missing one included.
C23_ClassIffWord ==
    statusClass # "none" =>
        LET isWord(w) == taskStatus \notin {[kind |-> "undefined"], Null}
                           /\ EqualIgnoringCase(taskStatus.chars, w)
        IN  /\ statusClass \in {"success", "failed", "processing", "pending"}
            /\ statusClass = "success" <=> isWord(Success)
            /\ statusClass = "failed" <=> isWord(Failed)
            /\ statusClass = "processing" <=> isWord(Processing)
            /\ statusClass = "pending" <=>
                  ~(isWord(Success) \/ isWord(Failed) \/ isWord(Processing))

\* the card of a task whose status is 'SuCcEsS'
C23_Witness ==
    /\ statusClass = "success"
    /\ taskStatus = Str(<<"S", "u", "C", "c", "E", "s", "S">>)

----------------------------------------------------------------------------
(* loadChunkTasks: the paginated task list. A call sends its request and
   handles the response in a later step; calls may overlap. *)

MaxLoads == 3       \* calls of loadChunkTasks in one run

\* what the task tracker holds
Snapshot == [taskList |-> taskList, taskCursor |-> taskCursor, taskHasMore |-> taskHasMore]

\* result.data of a tasks response, has naming the fields it carries: a first
\* page, a second page, a last page that repeats a task of the first two, a
\* page without nextCursor and hasMore, and a result without data. Every
\* task is an object that renderTaskList renders.
TaskData ==
    {[has |-> {"data", "tasks", "nextCursor", "hasMore"}, tasks |-> <<1, 2>>, nextCursor |-> 2, hasMore |-> TRUE],
     [has |-> {"data", "tasks", "nextCursor", "hasMore"}, tasks |-> <<3>>, nextCursor |-> 3, hasMore |-> TRUE],
     [has |-> {"data", "tasks", "nextCursor", "hasMore"}, tasks |-> <<2, 3>>, nextCursor |-> 4, hasMore |-> FALSE],
     [has |-> {"data", "tasks"}, tasks |-> <<4>>, nextCursor |-> 0, hasMore |-> FALSE],
     [has |-> {}, tasks |-> <<>>, nextCursor |-> 0, hasMore |-> FALSE]}

\* mutant: a fresh load keeps the list it finds
AccumulateAlways(append, list, tasks) == list \o tasks

\* mutant: a page is put in front of the list
AccumulateInFront(append, list, tasks) == IF ~append THEN tasks ELSE tasks \o list

\* if (!append) taskList = tasks; else taskList = taskList.concat(tasks)
Accumulate(append, list, tasks) == IF ~append THEN tasks ELSE list \o tasks

\* mutant: load more asks the backend although no more tasks were reported
loadChunkTasksAnyway(append, silent, ready) ==
    /\ Len(SelectSeq(taskLog, LAMBDA e : e.kind = "call")) < MaxLoads
    /\ ready
    /\ LET id == Len(taskLog) + 1
           cursorParam == IF append THEN taskCursor ELSE 0
       IN  /\ taskCalls' = taskCalls \cup {[id |-> id, append |-> append, silent |-> silent,
                                            cursor |-> cursorParam]}
           /\ taskLog' = Append(taskLog, [kind |-> "call", id |-> id, append |-> append,
                                          sent |-> TRUE, cursor |-> cursorParam,
                                          inFlight |-> Cardinality(taskCalls),
                                          toast |-> "none",
                                          before |-> Snapshot, after |-> Snapshot])
    /\ UNCHANGED <<taskList, taskCursor, taskHasMore>>

\* loadChunkTasks({append, silent}) up to its fetch: it returns at once
\* without its stores or the list container (ready false), refuses to load
\* more when taskHasMore is false, and otherwise requests the page at
\* taskCursor, or at 0 for a fresh load
loadChunkTasks(append, silent, ready) ==
    /\ Len(SelectSeq(taskLog, LAMBDA e : e.kind = "call")) < MaxLoads
    /\ LET id == Len(taskLog) + 1
           cursorParam == IF append THEN taskCursor ELSE 0
           sent == ready /\ ~(append /\ ~taskHasMore)
       IN  /\ taskCalls' = IF sent
                           THEN taskCalls \cup {[id |-> id, append |-> append,
                                                 silent |-> silent, cursor |-> cursorParam]}
                           ELSE taskCalls
           /\ taskLog' = Append(taskLog, [kind |-> "call", id |-> id, append |-> append,
                                          sent |-> sent, cursor |-> cursorParam,
                                          inFlight |-> Cardinality(taskCalls),
                                          toast |-> IF ready /\ ~sent THEN "info" ELSE "none",
                                          before |-> Snapshot, after |-> Snapshot])
    /\ UNCHANGED <<taskList, taskCursor, taskHasMore>>

\* mutant: a failed request counts as an empty last page
TasksResponseEmptyPage(c, outcome, data) ==
    /\ c \in taskCalls
    /\ taskCalls' = taskCalls \ {c}
    /\ LET tasks == IF "tasks" \in data.has THEN data.tasks ELSE <<>>
           nextCursor == IF "nextCursor" \in data.has THEN data.nextCursor ELSE 0
           hasMore == IF "hasMore" \in data.has THEN data.hasMore ELSE FALSE
       IN  /\ taskList' = Accumulate(c.append, taskList, tasks)
           /\ taskCursor' = nextCursor
           /\ taskHasMore' = hasMore
           /\ taskLog' = Append(taskLog, [kind |-> "response", id |-> c.id,
                                          ok |-> outcome \notin FailOutcomes,
                                          append |-> c.append, cursor |-> c.cursor,
                                          data |-> data, toast |-> "none",
                                          before |-> Snapshot,
                                          after |-> [taskList |-> Accumulate(c.append, taskList, tasks),
                                                     taskCursor |-> nextCursor,
                                                     taskHasMore |-> hasMore]])

\* the response of the call c arrives: a failure is caught (and shown unless
\* silent); otherwise the page is accumulated, the list rendered, and the
\* cursor and hasMore of the page are stored
TasksResponse(c, outcome, data) ==
    /\ c \in taskCalls
    /\ taskCalls' = taskCalls \ {c}
    /\ IF outcome \in FailOutcomes
       THEN /\ UNCHANGED <<taskList, taskCursor, taskHasMore>>
            /\ taskLog' = Append(taskLog, [kind |-> "response", id |-> c.id, ok |-> FALSE,
                                           append |-> c.append, cursor |-> c.cursor,
                                           data |-> data,
                                           toast |-> IF c.silent THEN "none" ELSE "error",
                                           before |-> Snapshot, after |-> Snapshot])
       ELSE LET tasks == IF "tasks" \in data.has THEN data.tasks ELSE <<>>
                nextCursor == IF "nextCursor" \in data.has THEN data.nextCursor ELSE 0
                hasMore == IF "hasMore" \in data.has THEN data.hasMore ELSE FALSE
            IN  /\ taskList' = Accumulate(c.append, taskList, tasks)
                /\ taskCursor' = nextCursor
                /\ taskHasMore' = hasMore
                /\ taskLog' = Append(taskLog, [kind |-> "response", id |-> c.id, ok |-> TRUE,
                                               append |-> c.append, cursor |-> c.cursor,
                                               data |-> data, toast |-> "none",
                                               before |-> Snapshot,
                                               after |-> [taskList |-> Accumulate(c.append, taskList, tasks),
                                                          taskCursor |-> nextCursor,
                                                          taskHasMore |-> hasMore]])

TasksInit ==
    /\ InitTasks
    /\ InitStatus
    /\ InitRuns
    /\ InitOss
    /\ InitKey
    /\ InitUtxo
    /\ InitFlow

TasksNext ==
    \/ \E append \in BOOLEAN, silent \in BOOLEAN, ready \in BOOLEAN :
          /\ loadChunkTasks(append, silent, ready)
          /\ UNCHANGED <<ossVars, keyVars, utxoVars, flowVars, statusVars, runVars>>
    \/ \E c \in taskCalls, outcome \in FailOutcomes \cup {"ok"}, data \in TaskData :
          /\ outcome \in FailOutcomes => data.has = {}
          /\ TasksResponse(c, outcome, data)
          /\ UNCHANGED <<ossVars, keyVars, utxoVars, flowVars, statusVars, runVars>>

SpecTasks == TasksInit /\ [][TasksNext]_vars

\* the places in the log of the calls that sent a request, and of the
\* responses that were handled successfully
SentCalls == {i \in 1..Len(taskLog) : taskLog[i].kind = "call" /\ taskLog[i].sent}
OkResponses == {i \in 1..Len(taskLog) : taskLog[i].kind = "response" /\ taskLog[i].ok}

\* the tasks and the next cursor a response carries
PageTasks(e) == IF "tasks" \in e.data.has THEN e.data.tasks ELSE <<>>
PageCursor(e) == IF "nextCursor" \in e.data.has THEN e.data.nextCursor ELSE 0

\* the latest of a non-empty set of places
Latest(places) == CHOOSE i \in places : \A k \in places : k <= i

\* C24: a successful response leaves the list equal to its tasks after a
\* fresh load and to the previous list followed by its tasks after a load
\* more; a fresh load requests cursor 0 and a load more the cursor stored
\* from the most recent successful response; the list held is the one the
\* latest successful response left.
C24_PageAccumulated ==
    /\ \A i \in OkResponses :
          taskLog[i].after.taskList =
              IF taskLog[i].append THEN taskLog[i].before.taskList \o PageTasks(taskLog[i])
              ELSE PageTasks(taskLog[i])
    /\ \A i \in SentCalls :
          LET earlier == {k \in OkResponses : k < i}
          IN  taskLog[i].cursor =
                  IF ~taskLog[i].append THEN 0
                  ELSE IF earlier = {} THEN 0
                  ELSE PageCursor(taskLog[Latest(earlier)])
    /\ taskList = IF OkResponses = {} THEN <<>> ELSE taskLog[Latest(OkResponses)].after.taskList

\* a load more whose page was added behind a list that was not empty, and a
\* later fresh load that replaced the list
C24_Witness ==
    /\ \E i \in OkResponses :
          /\ taskLog[i].append
          /\ taskLog[i].before.taskList # <<>>
          /\ PageTasks(taskLog[i]) # <<>>
          /\ taskLog[i].cursor = 2
    /\ \E i \in OkResponses :
          /\ ~taskLog[i].append
          /\ taskLog[i].before.taskList # <<>>
          /\ taskList = <<3>>

\* C25: a call of loadChunkTasks with append true made while taskHasMore is
\* false sends no request and leaves the list, the cursor and taskHasMore as
\* they are.
C25_NoMoreRefused ==
    [][(/\ Len(taskLog') = Len(taskLog) + 1
        /\ taskLog'[Len(taskLog')].kind = "call"
        /\ taskLog'[Len(taskLog')].append
        /\ ~taskHasMore)
       => (/\ ~taskLog'[Len(taskLog')].sent
           /\ taskCalls' = taskCalls
           /\ taskList' = taskList
           /\ taskCursor' = taskCursor
           /\ taskHasMore' = taskHasMore)]_vars

\* load more was refused before any page was loaded, and again after a page
\* that reported no more tasks
C25_Witness ==
    /\ Len(taskLog) > 3
    /\ taskLog[1].kind = "call" /\ taskLog[1].append /\ ~taskLog[1].sent
    /\ taskLog[Len(taskLog)].kind = "call"
    /\ taskLog[Len(taskLog)].append
    /\ ~taskLog[Len(taskLog)].sent
    /\ taskLog[Len(taskLog)].toast = "info"
    /\ taskList # <<>>
    /\ taskCalls = {}

\* the pages of the successful responses from place i to the end of the log,
\* one after the other
RECURSIVE PagesFrom(_)
PagesFrom(i) ==
    IF i > Len(taskLog) THEN <<>>
    ELSE (IF i \in OkResponses THEN PageTasks(taskLog[i]) ELSE <<>>) \o PagesFrom(i + 1)

\* every call was made with no other call awaiting its response
Sequential == \A i \in 1..Len(taskLog) : taskLog[i].kind = "call" => taskLog[i].inFlight = 0

\* the successful fresh loads
FreshLoads == {i \in OkResponses : ~taskLog[i].append}

\* the pages since the latest fresh load have no task in common
DisjointPages ==
    \A i, k \in {j \in OkResponses : j >= Latest(FreshLoads)} :
        i # k => Range(PageTasks(taskLog[i])) \cap Range(PageTasks(taskLog[k])) = {}

\* C26: when each call is made after the previous one finished, the list is
\* the pages returned since the latest fresh load, in the order of the
\* requests, and the cursor is the nextCursor of the most recent page; when
\* these pages are disjoint no task is in the list twice.
C26_PagesInOrder ==
    (Sequential /\ FreshLoads # {}) =>
        /\ taskList = PagesFrom(Latest(FreshLoads))
        /\ taskCursor = PageCursor(taskLog[Latest(OkResponses)])
        /\ DisjointPages =>
              \A i, k \in 1..Len(taskList) : i # k => taskList[i] # taskList[k]

\* a fresh load and a load more, one after the other: tasks 1, 2 and 3, and
\* the cursor of the second page
C26_Witness ==
    /\ Sequential
    /\ Len(taskLog) = 4
    /\ taskLog[1].kind = "call" /\ ~taskLog[1].append
    /\ taskLog[3].kind = "call" /\ taskLog[3].append /\ taskLog[3].cursor = 2
    /\ taskList = <<1, 2, 3>>
    /\ taskCursor = 3
    /\ taskHasMore

----------------------------------------------------------------------------
(* The progress timer of the synchronous path *)

\* the synchronous submission has been sent and not yet answered
SubmissionPending == flow.kind = "chunked" /\ flow.pc = "submit" /\ ~flow.asynchronous

\* the run has started its progress timer
TimerStarted == flow.kind = "chunked" /\ flow.currentProgress # Undefined

\* the ticks the timer needs from 50 to 90: 3 x (chunkCount + 1)
TicksToCeiling == 3 * (flow.estimateResult.chunkNumber + 1)

\* C27: in the synchronous path the interpolated progress starts at 50, is
\* 50 + e x 40 / (3 x (chunkCount + 1)) after e ticks, so never below 50 and
\* never above 90, and is 90 after exactly 3 x (chunkCount + 1) ticks; a
\* step never lowers it, changes it only by a tick while the request is
\* pending and the value is below 90, and the asynchronous path has none
C27_ProgressInterpolated ==
    /\ [](TimerStarted =>
            LET p == flow.currentProgress
                e == flow.elapsedSeconds
            IN  /\ ~flow.asynchronous
                /\ e \in 0..TicksToCeiling
                /\ p.num * TicksToCeiling = (50 * TicksToCeiling + 40 * e) * p.den
                /\ 50 * p.den <= p.num
                /\ p.num <= 90 * p.den
                /\ (p.num = 90 * p.den) <=> (e = TicksToCeiling))
    /\ [][/\ (~TimerStarted /\ TimerStarted')
              => /\ flow'.currentProgress.num = 50 * flow'.currentProgress.den
                 /\ flow'.elapsedSeconds = 0
                 /\ SubmissionPending'
          /\ (TimerStarted /\ flow'.currentProgress # flow.currentProgress)
              => /\ SubmissionPending
                 /\ flow.currentProgress.num < 90 * flow.currentProgress.den
                 /\ flow'.elapsedSeconds = flow.elapsedSeconds + 1
                 /\ wire' = wire
          /\ (TimerStarted /\ flow.currentProgress.num = 90 * flow.currentProgress.den)
              => flow'.elapsedSeconds = flow.elapsedSeconds
          /\ (TimerStarted /\ ~SubmissionPending)
              => flow'.elapsedSeconds = flow.elapsedSeconds]_vars

\* the request still pending after 3 x (chunkCount + 1) ticks: the progress
\* has arrived at 90 and the timer has stopped
C27_Witness ==
    /\ SubmissionPending
    /\ wire[Len(wire)].res = "pending"
    /\ flow.elapsedSeconds = TicksToCeiling
    /\ flow.elapsedSeconds = 6
    /\ flow.currentProgress = [num |-> 90, den |-> 1]
    /\ ~flow.progressInterval

\* the timer the run started has not been cleared
TimerActive == flow.kind = "chunked" /\ flow.progressInterval

\* C28: the progress timer is active only while the synchronous submission
\* is pending and fewer than 3 x (chunkCount + 1) ticks have passed, so it is
\* cleared in the step that handles the response, success or failure, and
\* by itself after a bounded number of ticks; a tick leaves the requests,
\* the position of the run and its result alone, and the step that handles
\* the response is the same whether ticks came before it or not
C28_TimerCancelled ==
    /\ [](TimerActive => /\ SubmissionPending
                         /\ wire[Len(wire)].res = "pending"
                         /\ ~flow.isApiReturned
                         /\ flow.elapsedSeconds < TicksToCeiling)
    /\ [](flow.kind = "chunked" /\ flow.pc = "done" /\ TimerStarted
            => flow.isApiReturned /\ ~flow.progressInterval)
    /\ [][flow.kind = "chunked" /\ flow'.elapsedSeconds # flow.elapsedSeconds
              => /\ wire' = wire
                 /\ settled' = settled
                 /\ flow'.pc = flow.pc
                 /\ flow'.toast = flow.toast
                 /\ flow'.isApiReturned = flow.isApiReturned]_vars
    /\ [][SubmissionPending /\ flow'.pc = "done"
              => /\ wire'[Len(wire')].res # "pending"
                 /\ flow'.elapsedSeconds = flow.elapsedSeconds
                 /\ flow'.currentProgress = flow.currentProgress]_vars

\* a synchronous submission that failed while the timer was running, some
\* ticks after it was sent
C28_Witness ==
    /\ flow.kind = "chunked"
    /\ flow.pc = "done"
    /\ TimerStarted
    /\ flow.elapsedSeconds \in 1..(TicksToCeiling - 1)
    /\ wire[Len(wire)].op = "chunked-upload"
    /\ wire[Len(wire)].res = "fail"
    /\ flow.toast = "error"
    /\ ~flow.progressInterval

----------------------------------------------------------------------------
(* The chain of the three transactions *)

\* input 0 of a pre-transaction spends an output of the paid merge
\* transaction
SpendsMergeOutput(input) ==
    /\ input.txId = flow.mergeResult.mergeTxId
    /\ input.outputIndex >= 0
    /\ input.outputIndex < Len(flow.mergeResult.mergeTxHex.outputs)

\* C29: each pre-transaction's input names the id of the paid merge
\* transaction and a valid output index of it, and the script and the amount
\* declared with the signature request are the script and the amount of the
\* merge output at that index.
C29_ChainLinked ==
    Merged =>
        /\ \A e \in Events({"signTransaction"}) :
              LET input == wire[e].req.txHex.inputs[1]
              IN  /\ SpendsMergeOutput(input)
                  /\ wire[e].req.scriptHex
                        = OutputScript(flow.mergeResult.mergeTxHex.outputs[input.outputIndex + 1])
                  /\ wire[e].req.satoshis
                        = flow.mergeResult.mergeTxHex.outputs[input.outputIndex + 1].satoshis
        /\ \A e \in Submissions :
              /\ wire[e].req.mergeTxHex = flow.mergeResult.mergeTxHex
              /\ SpendsMergeOutput(wire[e].req.chunkPreTxHex.inputs[1])
              /\ SpendsMergeOutput(wire[e].req.indexPreTxHex.inputs[1])

----------------------------------------------------------------------------
(* The order of the upload-part requests, checked under Spec *)

\* the upload-part requests of call c that no successful response answered
Unacknowledged(c) ==
    {i \in 1..Len(log[c].partReqs) : log[c].partReqs[i].partNumber \notin log[c].acked}

\* an upload-part response of call c was a failure
PartFailed(c) == \E o \in FailOutcomes \cup {"nodata"} : <<"part", o>> \in log[c].responses

\* C30: the upload-part requests of a call go out in ascending part order,
\* each one only after every earlier one was answered with HTTP OK and code
\* 0, so at most one is unanswered, and that one only while the call awaits
\* it, after its failure or after the page was left; a failed part ends the
\* call rejected with that part as its last request and no completion
\* request.
C30_OnePartAtATime ==
    \A c \in Calls :
        LET reqs == log[c].partReqs
        IN  /\ \A i, j \in 1..Len(reqs) : i < j => reqs[i].partNumber < reqs[j].partNumber
            /\ \A i \in 1..(Len(reqs) - 1) : reqs[i].partNumber \in log[c].acked
            /\ Cardinality(Unacknowledged(c)) <= 1
            /\ Unacknowledged(c) # {} =>
                  \/ call[c].pc = "part"
                  \/ call[c].pc = "done" /\ PartFailed(c) /\ result[c].status = "rejected"
                  \/ call[c].pc = "done" /\ result[c].status = "abandoned"
            /\ PartFailed(c) =>
                  /\ call[c].pc = "done"
                  /\ result[c].status = "rejected"
                  /\ Unacknowledged(c) = {Len(reqs)}
                  /\ log[c].completeReqs = <<>>
            /\ log[c].completeReqs # <<>> => Unacknowledged(c) = {}

\* a call for the 3-part file whose second upload-part request failed after
\* the first had succeeded: the third part was never requested
C30_Witness ==
    \E c \in Calls :
        /\ totalPartsOf(call[c].file) = 3
        /\ Len(log[c].partReqs) = 2
        /\ log[c].partReqs[1].partNumber = 1
        /\ log[c].partReqs[2].partNumber = 2
        /\ log[c].acked = {1}
        /\ <<"part", "http">> \in log[c].responses
        /\ call[c].pc = "done"

----------------------------------------------------------------------------
(* The parts of a file and the progress announced, checked under Spec *)

\* the byte range [start, end) of part p
RangeStart(p) == (p - 1) * 1048576

RangeEnd(file, p) == RangeStart(p) + partSizeOf(file, p)

\* the ranges of parts 1..totalParts lie end to start from 0 to the size of
\* the file, each of 1 MiB but the last, which has 1 byte to 1 MiB
Partitioned(file) ==
    LET total == totalPartsOf(file)
    IN  /\ total >= 0
        /\ (total = 0) <=> (file.size = 0)
        /\ \A p \in 1..total :
              /\ partSizeOf(file, p) >= 1
              /\ partSizeOf(file, p) <= 1048576
              /\ p < total => partSizeOf(file, p) = 1048576
              /\ p < total => RangeEnd(file, p) = RangeStart(p + 1)
              /\ p = total => RangeEnd(file, p) = file.size

----------------------------------------------------------------------------
(* Runs of runChunkedUploadFlow that overlap on one hook: each run as its
   awaits, and the variable chunkedUploadChunkNumber they share. What the
   requests carry is the subject of SpecFlow. *)

\* runChunkedUploadFlow(file, {asynchronous}) is called and awaits
\* uploadFileToOSS(file)
RunStart(r, file, asynchronous) ==
    /\ runs[r].pc = "idle"
    /\ runs' = [runs EXCEPT ![r].pc = "oss", ![r].file = file,
                            ![r].asynchronous = asynchronous]
    /\ UNCHANGED chunkedUploadChunkNumber

\* uploadFileToOSS, getWalletUTXOs, buildChunkedUploadMergeTx or
\* buildChunkFundingPreTx settles: the run goes on to its next await, or to
\* its catch block
RunAwaited(r, ok) ==
    /\ runs[r].pc \in {"oss", "utxos", "pay", "signChunk"}
    /\ runs' = [runs EXCEPT ![r].pc = IF ~ok THEN "done"
                                      ELSE CASE runs[r].pc = "oss" -> "estimate"
                                             [] runs[r].pc = "utxos" -> "pay"
                                             [] runs[r].pc = "pay" -> "signChunk"
                                             [] runs[r].pc = "signChunk" -> "signIndex"]
    /\ UNCHANGED chunkedUploadChunkNumber

\* estimateChunkedUploadFee settles: the chunk number of the estimate is
\* stored in the hook's variable and the dialog opens
RunEstimateResponse(r, ok, estimateResult) ==
    /\ runs[r].pc = "estimate"
    /\ IF ok
       THEN /\ runs' = [runs EXCEPT ![r].pc = "confirm", ![r].estimateResult = estimateResult]
            /\ chunkedUploadChunkNumber' = estimateResult.chunkNumber
       ELSE /\ runs' = [runs EXCEPT ![r].pc = "done"]
            /\ UNCHANGED chunkedUploadChunkNumber

\* the user answers the dialog
RunConfirmation(r, confirmed) ==
    /\ runs[r].pc = "confirm"
    /\ runs' = [runs EXCEPT ![r].pc = IF confirmed THEN "utxos" ELSE "done"]
    /\ UNCHANGED chunkedUploadChunkNumber

\* buildIndexPreTx settles: the synchronous path computes the estimated
\* duration from the hook's variable and starts its timer
RunSignIndexResponse(r, ok) ==
    /\ runs[r].pc = "signIndex"
    /\ IF ~ok
       THEN runs' = [runs EXCEPT ![r].pc = "done"]
       ELSE IF runs[r].asynchronous
       THEN runs' = [runs EXCEPT ![r].pc = "submit"]
       ELSE LET totalTransactions == chunkedUploadChunkNumber + 1
            IN  runs' = [runs EXCEPT ![r].pc = "submit",
                                     ![r].estimatedTotalSeconds = totalTransactions * 3]
    /\ UNCHANGED chunkedUploadChunkNumber

\* createChunkedUploadTask or chunkedUpload settles
RunSubmitResponse(r) ==
    /\ runs[r].pc = "submit"
    /\ runs' = [runs EXCEPT ![r].pc = "done"]
    /\ UNCHANGED chunkedUploadChunkNumber

RunsInit ==
    /\ InitRuns
    /\ InitStatus
    /\ InitTasks
    /\ InitOss
    /\ InitKey
    /\ InitUtxo
    /\ InitFlow

\* the first run uploads a.bin and the second b.bin; the backend estimates
\* one or two chunks for a file
RunsNext ==
    \/ \E r \in Runs, asynchronous \in BOOLEAN :
          /\ RunStart(r, IF r = "r1" THEN [name |-> "a.bin", size |-> 441]
                                     ELSE [name |-> "b.bin", size |-> 882], asynchronous)
          /\ UNCHANGED <<ossVars, keyVars, utxoVars, flowVars, taskVars, statusVars>>
    \/ \E r \in Runs, ok \in BOOLEAN :
          RunAwaited(r, ok) /\ UNCHANGED <<ossVars, keyVars, utxoVars, flowVars, taskVars, statusVars>>
    \/ \E r \in Runs, ok \in BOOLEAN, chunkNumber \in {1, 2} :
          /\ RunEstimateResponse(r, ok, [chunkNumber |-> chunkNumber])
          /\ UNCHANGED <<ossVars, keyVars, utxoVars, flowVars, taskVars, statusVars>>
    \/ \E r \in Runs, confirmed \in BOOLEAN :
          RunConfirmation(r, confirmed) /\ UNCHANGED <<ossVars, keyVars, utxoVars, flowVars, taskVars, statusVars>>
    \/ \E r \in Runs, ok \in BOOLEAN :
          RunSignIndexResponse(r, ok) /\ UNCHANGED <<ossVars, keyVars, utxoVars, flowVars, taskVars, statusVars>>
    \/ \E r \in Runs :
          RunSubmitResponse(r) /\ UNCHANGED <<ossVars, keyVars, utxoVars, flowVars, taskVars, statusVars>>

SpecRuns == RunsInit /\ [][RunsNext]_vars

\* C32: a synchronous run that has started its progress timer estimated
\* 3 seconds for each of its own transactions, the chunks of its own
\* estimate and one more.
C32_OwnChunkCount ==
    \A r \in Runs :
        (runs[r].pc \in {"submit", "done"} /\ runs[r].estimatedTotalSeconds # 0)
            => runs[r].estimatedTotalSeconds = 3 * (runs[r].estimateResult.chunkNumber + 1)

----------------------------------------------------------------------------
(* The amount asked of the UTXO selector, checked under SpecFlow *)

\* getWalletUTXOs has returned its selection to the chunked run
Selected == flow.kind = "chunked" /\ flow.allUtxos # Undefined

\* the client's size model of a merge transaction with n inputs and two
\* outputs, times the fee rate
ModelledMergeFee(n) == (200 + 150 * n + 2 * 34) * RunFeeRate

\* the amount asked for, and the inputs selected, cover the two funding
\* outputs and the modelled fee of a merge transaction with the selected inputs
CoversModelledFee ==
    LET needed == ChunkAmountOfRun + IndexAmountOfRun
                      + ModelledMergeFee(Len(flow.allUtxos.utxos))
    IN  /\ flow.totalRequiredAmount >= needed
        /\ flow.allUtxos.totalAmount >= needed
        /\ SeqSum([i \in 1..Len(flow.allUtxos.utxos) |-> flow.allUtxos.utxos[i].satoshis]) >= needed

\* C33 as stated: the amount asked of the selector covers the two funding
\* outputs and the modelled merge fee for the number of UTXOs selected,
\* whatever that number is.
C33_CoversForEveryCount == Selected => CoversModelledFee

\* C33 amended: the same when one or two UTXOs were selected, the two
\* inputs the estimate assumes.
C33_CoversUpToTwoInputs ==
    (Selected /\ Len(flow.allUtxos.utxos) <= 2)
        => /\ Len(flow.allUtxos.utxos) >= 1
           /\ CoversModelledFee

\* a selection of two UTXOs handed to the merge transaction
C33_Witness ==
    /\ Selected
    /\ Len(flow.allUtxos.utxos) = 2
    /\ flow.pc = "pay"

----------------------------------------------------------------------------
(* The confirmation dialog, checked under SpecFlow *)

\* the requests to the wallet and the submissions of the chunked run
AfterConfirmation ==
    Events({"getUtxos", "pay", "signTransaction", "chunked-upload-task", "chunked-upload"})

\* C34: in a chunked run every wallet request and every submission comes
\* after the dialog was answered with a confirmation; a run whose dialog was
\* declined has made none, is over and has resolved.
C34_NothingWithoutConfirmation ==
    flow.kind = "chunked" =>
        /\ \A e \in AfterConfirmation :
              \E d \in 1..(e - 1) : wire[d].op = "dialog" /\ wire[d].res = "ok"
        /\ \A d \in Events({"dialog"}) :
              wire[d].res = "declined"
                  => /\ AfterConfirmation = {}
                     /\ d = Len(wire)
                     /\ flow.pc = "done"
                     /\ settled = Resolved(Undefined)

\* a run whose dialog was declined
C34_Witness ==
    /\ flow.kind = "chunked"
    /\ \E d \in Events({"dialog"}) : wire[d].res = "declined"
    /\ flow.pc = "done"

----------------------------------------------------------------------------
(* Failed and overlapping loads, checked under SpecTasks *)

\* the responses handled that were failures
FailedResponses == {i \in 1..Len(taskLog) : taskLog[i].kind = "response" /\ ~taskLog[i].ok}

\* no response was handled between the places j and i of the log
NoResponseBetween(j, i) == \A k \in (j + 1)..(i - 1) : taskLog[k].kind # "response"

\* C35: handling a failed request changes none of the list, the cursor and
\* taskHasMore; they are what they were when the call was made unless the
\* response of another call was handled in between.
C35_FailureKeepsTasks ==
    /\ \A i \in FailedResponses :
          /\ taskLog[i].after = taskLog[i].before
          /\ NoResponseBetween(taskLog[i].id, i) => taskLog[i].after = taskLog[taskLog[i].id].before
    /\ (taskLog # <<>> /\ Len(taskLog) \in FailedResponses)
          => Snapshot = taskLog[Len(taskLog)].before

\* a fresh load and a load more have failed, each finding tasks in the list
C35_Witness ==
    /\ \E i \in FailedResponses : ~taskLog[i].append /\ taskLog[i].before.taskList # <<>>
    /\ \E i \in FailedResponses :
          /\ taskLog[i].append
          /\ taskLog[i].before.taskHasMore
          /\ taskLog[i].before.taskCursor # 0
    /\ Len(taskLog) \in FailedResponses
    /\ taskList # <<>>

\* the backend serves one page per cursor: successful responses to the same
\* cursor carry the same data, those to different cursors no task in common
OnePagePerCursor ==
    \A i, k \in OkResponses :
        IF taskLog[i].cursor = taskLog[k].cursor
        THEN taskLog[i].data = taskLog[k].data
        ELSE Range(PageTasks(taskLog[i])) \cap Range(PageTasks(taskLog[k])) = {}

\* C36: when calls have overlapped and all have completed, the list holds
\* no task twice and the cursor and taskHasMore are those of the page that
\* was added last, the backend serving one page per cursor.
C36_OverlapKeepsList ==
    (~Sequential /\ taskCalls = {} /\ OkResponses # {} /\ OnePagePerCursor) =>
        /\ \A i, k \in 1..Len(taskList) : i # k => taskList[i] # taskList[k]
        /\ taskCursor = PageCursor(taskLog[Latest(OkResponses)])
        /\ taskHasMore = ("hasMore" \in taskLog[Latest(OkResponses)].data.has
                              /\ taskLog[Latest(OkResponses)].data.hasMore)

----------------------------------------------------------------------------
(* Calls of uploadFileToOSS that overlap: both calls are made for the same
   file of two parts, by the same user, on one page *)

CallsNext ==
    \/ \E c \in Calls :
          /\ Start(c, [name |-> "c.bin", size |-> 1048577])
          /\ UNCHANGED <<keyVars, utxoVars, flowVars, taskVars, statusVars, runVars>>
    \/ \E c \in Calls, outcome \in FailOutcomes \cup {"ok"} :
          ListPartsResponse(c, outcome) /\ UNCHANGED <<keyVars, utxoVars, flowVars, taskVars, statusVars, runVars>>
    \/ \E c \in Calls, outcome \in FailOutcomes \cup {"nodata", "ok"} :
          InitiateResponse(c, outcome) /\ UNCHANGED <<keyVars, utxoVars, flowVars, taskVars, statusVars, runVars>>
    \/ \E c \in Calls, ok \in BOOLEAN :
          ReadDone(c, ok) /\ UNCHANGED <<keyVars, utxoVars, flowVars, taskVars, statusVars, runVars>>
    \/ \E c \in Calls, outcome \in FailOutcomes \cup {"nodata", "ok"}, commit \in BOOLEAN :
          PartResponse(c, outcome, commit) /\ UNCHANGED <<keyVars, utxoVars, flowVars, taskVars, statusVars, runVars>>
    \/ \E c \in Calls, outcome \in FailOutcomes \cup {"nodata", "ok"}, commit \in BOOLEAN :
          \E dataKey \in {call[c].key, "k0"} :
             /\ outcome # "ok" => dataKey = call[c].key
             /\ CompleteResponse(c, outcome, commit, dataKey)
             /\ UNCHANGED <<keyVars, utxoVars, flowVars, taskVars, statusVars, runVars>>

SpecCalls == Init /\ [][CallsNext]_vars

\* call c is between its first request and its end
Unfinished(c) == call[c].pc \notin {"idle", "done"}

\* the session record of the file of call c, parsed, or Null
SessionOf(st, c) ==
    LET item == getItem(st, SessionKeyOf(call[c]))
    IN  IF item = Null \/ JSONparse(item).threw THEN Null ELSE JSONparse(item).value

\* call c resolves in this step
Resolves(c) == result[c].status # "resolved" /\ result'[c].status = "resolved"

\* C37: when a call completes successfully, a session record that names the
\* upload of another, unfinished call is still there afterwards; and a
\* session record in local storage never names a completed upload.
C37_OverlapKeepsSession ==
    /\ [][\A c, d \in Calls :
             (/\ Resolves(c)
              /\ c # d
              /\ Unfinished(d)
              /\ call[d].uploadId # ""
              /\ call[d].uploadId # call[c].uploadId
              /\ SessionOf(localStorage, d) # Null
              /\ SessionOf(localStorage, d).uploadId = call[d].uploadId)
                 => SessionOf(localStorage', d) = SessionOf(localStorage, d)]_vars
    /\ [](\A c \in Calls :
             (call[c].pc # "idle" /\ SessionOf(localStorage, c) # Null)
                 => \/ ~Known(uploads, SessionOf(localStorage, c).uploadId)
                    \/ Open(uploads, SessionOf(localStorage, c).uploadId))

----------------------------------------------------------------------------
(* Claims about uploadFileToChainDirect, checked under SpecFlow *)

\* getWalletUTXOs has returned its selection to the direct flow
DirectSelected == flow.kind = "direct" /\ flow.allUtxos # Undefined

\* mergeUTXOs has been entered: it has sent its pay request, or has found
\* the wallet without a pay method
MergeEntered ==
    \/ Events({"pay"}) # {}
    \/ /\ settled.status = "rejected"
       /\ settled.error = Err("Failed to merge UTXOs: ", "Wallet does not support pay method")

\* buildAndSignBaseTx has been called with flow.finalUtxo and has passed its
\* check of the number of UTXOs
BaseTxAsked == flow.kind = "direct" /\ flow.finalUtxo # Undefined

\* C38: in the direct flow mergeUTXOs is entered exactly when the selection
\* holds more than one UTXO; buildAndSignBaseTx gets exactly one UTXO, the
\* selected one when the selection holds one and otherwise an output of the
\* merge transaction; and the run never fails on the check for exactly one
\* UTXO.
C38_ExactlyOneUtxo ==
    /\ DirectSelected => (MergeEntered <=> Len(flow.allUtxos.utxos) > 1)
    /\ BaseTxAsked =>
          /\ DirectSelected
          /\ Len(flow.finalUtxo.utxos) = 1
          /\ Len(flow.allUtxos.utxos) = 1 => flow.finalUtxo.utxos = flow.allUtxos.utxos
          /\ Len(flow.allUtxos.utxos) > 1 =>
                /\ flow.finalUtxo.utxos[1].txId = TxIdOf(flow.mergeTxHex)
                /\ flow.finalUtxo.utxos[1].outputIndex + 1 \in 1..Len(flow.mergeTxHex.outputs)
                /\ flow.finalUtxo.utxos[1].satoshis =
                      flow.mergeTxHex.outputs[flow.finalUtxo.utxos[1].outputIndex + 1].satoshis
    /\ (flow.kind = "direct" /\ settled.status = "rejected") =>
          settled.error.cause # "SIGHASH_SINGLE requires exactly 1 UTXO"

\* three UTXOs were selected and merged, and the base transaction spending
\* the merged output is signed and posted
C38_Witness ==
    /\ BaseTxAsked
    /\ Len(flow.allUtxos.utxos) = 3
    /\ flow.pc = "d_upload"

\* C39: the totalInputAmount of a direct-upload request is at least the
\* estimated fee plus the one satoshi of the receiver output, whether the
\* selection was a single UTXO or was merged.
C39_InputCoversFee ==
    \A e \in Events({"direct-upload"}) :
        wire[e].req.totalInputAmount >= flow.estimatedFee + 1
====
